---- MODULE Spec2Model ----
(***************************************************************************)
(* Page analysis and element resolution of scriptforge.                    *)
(*                                                                         *)
(*   Spec          PageAnalyzerService.analyzePage: concurrent calls on    *)
(*                 one service sharing the lazily launched browser.        *)
(*   SpecSnapshot  extractElements / generateSelector over a document.     *)
(*   SpecMatch     ContextAwareNLPService.findBestMatchingElement.         *)
(*   SpecSummary   extractDOMContent: cleanElement and the size limit.     *)
(*   SpecForms     extractForms beside extractElements.                    *)
(*   SpecCapture   extractElements with a failing node, and run twice.     *)
(*   SpecLeafText  cleanElement: the text of leaf nodes.                   *)
(*   SpecXPath     getXPath on every element of a page.                    *)
(*   SpecRepeat    findBestMatchingElement called twice on one list.       *)
(*   SpecEnhance   enhanceIntentWithPageContext.                           *)
(*   SpecContext   parseIntentWithContext.                                 *)
(*   SpecExecute   ScriptController POST /:id/execute, concurrent requests.*)
(***************************************************************************)
EXTENDS Integers, Sequences, FiniteSets, TLC

VARIABLES
    browser,    \* PageAnalyzerService.browser: 0 is null, else a browser id
    launched,   \* browser processes chromium.launch has produced
    pc,         \* per analyzePage call: the await it is suspended at
    page,       \* per call: state of the page it opened
    pageOf,     \* per call: the browser its page was requested from
    failedAt,   \* per call: the await whose rejection the catch block got
    doc,        \* the rendered document: its elements in document order
    snap,       \* the result of extractElements on doc, once it has run
    contextElements,  \* pageContext.elements handed to the matcher
    matchedElement,   \* the matcher's call and what it returned
    scriptStatus,     \* the stored status of the script that is executed
    executions,       \* per execute request: the status of its stored record
    request           \* per execute request: where its handler is suspended

analyzeVars == <<browser, launched, pc, page, pageOf, failedAt>>

snapshotVars == <<doc, snap>>

matchVars == <<contextElements, matchedElement>>

executeVars == <<scriptStatus, executions, request>>

vars == <<browser, launched, pc, page, pageOf, failedAt, doc, snap,
          contextElements, matchedElement, scriptStatus, executions, request>>

(***************************************************************************)
(* Text.  A string is a sequence of atoms: each character that is special  *)
(* in a selector is an atom of its own, and a maximal run of other         *)
(* characters (letters, digits, hyphens) is one atom.                      *)
(***************************************************************************)

Q == "\""

BS == "\\"

Specials ==
    {":", "[", "]", "(", ")", "{", "}", ",", ".", ">", "~", "+", " ",
     BS, "#", Q, "=", "/", "@", "*"}

IsIdentAtom(a) == a \notin Specials

RECURSIVE Concat(_)
\* The concatenation of a sequence of strings.
Concat(ss) == IF ss = <<>> THEN <<>> ELSE Head(ss) \o Concat(Tail(ss))

RECURSIVE Join(_, _)
\* Array.prototype.join: the strings of ss with sep between neighbours.
Join(ss, sep) ==
    IF ss = <<>> THEN <<>>
    ELSE IF Len(ss) = 1 THEN ss[1]
    ELSE ss[1] \o sep \o Join(Tail(ss), sep)

(***************************************************************************)
(* The document.  doc[n] is the n-th element in document order (preorder); *)
(* doc[1] is document.body, whose parent 0 stands for the html element,    *)
(* which carries no attributes and has the children head and body.         *)
(***************************************************************************)

Body == 1

\* An element as the page delivers it: tag name (lower case), parent, id,
\* classList, data-testid (<<>> absent, <<v>> present with value v), role,
\* innerText, the type and href attributes (<<>> absent), and the XML
\* namespace when the element is not an HTML element (<<>> for HTML).
NewNode(tag, parent) ==
    [tag |-> tag, parent |-> parent, id |-> <<>>, classes |-> <<>>,
     testid |-> <<>>, role |-> <<>>, text |-> <<>>, type |-> <<>>,
     href |-> <<>>, namespace |-> <<>>]

RECURSIVE Ancestors(_, _)
\* The proper ancestors of n inside the body subtree.
Ancestors(d, n) ==
    IF d[n].parent = 0 THEN {}
    ELSE {d[n].parent} \cup Ancestors(d, d[n].parent)

\* The 1-based position of n among the children of its parent that have its
\* tag: 1 + the number of preceding same-tag siblings.
SameTagIndex(d, n) ==
    Cardinality({m \in 1..n : d[m].parent = d[n].parent /\ d[m].tag = d[n].tag})

\* The number of children of n's parent that have n's tag.
SameTagCount(d, n) ==
    Cardinality({m \in 1..Len(d) : d[m].parent = d[n].parent /\ d[m].tag = d[n].tag})

\* Element.getAttribute for the attributes a selector of this program can
\* test: <<>> when absent, <<v>> when present.
GetAttribute(d, n, name) ==
    IF name = <<"data-testid">> THEN d[n].testid
    ELSE IF name = <<"role">> THEN (IF d[n].role = <<>> THEN <<>> ELSE <<d[n].role>>)
    ELSE IF name = <<"id">> THEN (IF d[n].id = <<>> THEN <<>> ELSE <<d[n].id>>)
    ELSE IF name = <<"type">>
       THEN (IF d[n].type = <<>> THEN <<>> ELSE <<d[n].type>>)
    ELSE IF name = <<"href">>
       THEN (IF d[n].href = <<>> THEN <<>> ELSE <<d[n].href>>)
    ELSE IF name = <<"class">>
       THEN (IF d[n].classes = <<>> THEN <<>>
             ELSE <<Join(d[n].classes, <<" ">>)>>)
    ELSE <<>>

(***************************************************************************)
(* document.querySelectorAll: the selector text is parsed by the CSS       *)
(* grammar (type, #id, .class, [attr], [attr="v"], :nth-of-type(k),        *)
(* combinators, comma lists; a backslash escapes the next character) and   *)
(* matched against the document.  Text the grammar rejects makes the query *)
(* throw.                                                                  *)
(***************************************************************************)

RECURSIVE ReadIdent(_, _, _)
\* The identifier starting at s[i]: its name with the escapes resolved, and
\* the position after it.
ReadIdent(s, i, acc) ==
    IF i > Len(s) THEN [name |-> acc, next |-> i]
    ELSE IF s[i] = BS /\ i < Len(s) THEN ReadIdent(s, i + 2, Append(acc, s[i + 1]))
    ELSE IF IsIdentAtom(s[i]) THEN ReadIdent(s, i + 1, Append(acc, s[i]))
    ELSE [name |-> acc, next |-> i]

RECURSIVE ReadString(_, _, _)
\* The body of a double-quoted string starting at s[i], up to its closing quote.
ReadString(s, i, acc) ==
    IF i > Len(s) THEN [closed |-> FALSE, value |-> acc, next |-> i]
    ELSE IF s[i] = Q THEN [closed |-> TRUE, value |-> acc, next |-> i + 1]
    ELSE IF s[i] = BS /\ i < Len(s) THEN ReadString(s, i + 2, Append(acc, s[i + 1]))
    ELSE ReadString(s, i + 1, Append(acc, s[i]))

MaxNth == 9

IsNumber(a) == \E k \in 1..MaxNth : ToString(k) = a

NumberOf(a) == CHOOSE k \in 1..MaxNth : ToString(k) = a

EmptyCompound == [tag |-> <<>>, ids |-> {}, cls |-> {}, attrs |-> {}, nth |-> {}]

\* One simple selector read from the text: what it tests and where it ends.
Simple(kind, value, next) == [ok |-> TRUE, kind |-> kind, value |-> value, next |-> next]

BadSimple == [ok |-> FALSE, kind |-> "", value |-> <<>>, next |-> 0]

\* A tag name, #name or .name, given the identifier r read for it.
NamedSimple(kind, r) ==
    IF r.name = <<>> THEN BadSimple ELSE Simple(kind, r.name, r.next)

\* [name="value"], given its name and the string q read after the =".
AttrEquals(s, name, q) ==
    IF q.closed /\ q.next <= Len(s) /\ s[q.next] = "]"
       THEN Simple("attr", [name |-> name, val |-> <<q.value>>], q.next + 1)
       ELSE BadSimple

\* [name] or [name="value"], given the identifier r read after the "[".
AttrAfterName(s, r) ==
    IF r.name = <<>> \/ r.next > Len(s) THEN BadSimple
    ELSE IF s[r.next] = "]"
        THEN Simple("attr", [name |-> r.name, val |-> <<>>], r.next + 1)
    ELSE IF s[r.next] = "=" /\ r.next < Len(s) /\ s[r.next + 1] = Q
        THEN AttrEquals(s, r.name, ReadString(s, r.next + 2, <<>>))
    ELSE BadSimple

\* A pseudo-class, given the identifier r read after the ":".
\* :nth-of-type(k) is the one the engine is given that CSS defines; anything
\* else (:has-text(...) included) is a syntax error.
PseudoAfterName(s, r) ==
    IF /\ r.name = <<"nth-of-type">>
       /\ r.next + 2 <= Len(s)
       /\ s[r.next] = "(" /\ IsNumber(s[r.next + 1]) /\ s[r.next + 2] = ")"
       THEN Simple("nth", NumberOf(s[r.next + 1]), r.next + 3)
       ELSE BadSimple

\* Whether a compound selector ends at s[i]; first: nothing of it is read yet.
CompoundEnds(s, i, first) ==
    \/ i > Len(s)
    \/ s[i] \in {" ", ",", ">", "~", "+", "]", "(", ")", "{", "}", "=", Q, "/", "@"}
    \/ ~first /\ (IsIdentAtom(s[i]) \/ s[i] \in {BS, "*"})

\* The simple selector at s[i].
ReadSimple(s, i) ==
    IF s[i] = "*" THEN Simple("any", <<>>, i + 1)
    ELSE IF s[i] = "[" THEN AttrAfterName(s, ReadIdent(s, i + 1, <<>>))
    ELSE IF s[i] = ":" THEN PseudoAfterName(s, ReadIdent(s, i + 1, <<>>))
    ELSE NamedSimple(IF s[i] = "#" THEN "id" ELSE IF s[i] = "." THEN "class" ELSE "tag",
                     ReadIdent(s, IF s[i] \in {"#", "."} THEN i + 1 ELSE i, <<>>))

\* The compound selector comp with the simple selector r added.
WithSimple(comp, r) ==
    CASE r.kind = "tag" -> [comp EXCEPT !.tag = r.value]
      [] r.kind = "id" -> [comp EXCEPT !.ids = @ \cup {r.value}]
      [] r.kind = "class" -> [comp EXCEPT !.cls = @ \cup {r.value}]
      [] r.kind = "attr" -> [comp EXCEPT !.attrs = @ \cup {r.value}]
      [] r.kind = "nth" -> [comp EXCEPT !.nth = @ \cup {r.value}]
      [] OTHER -> comp

RECURSIVE ReadCompound(_, _, _, _)

ReadCompoundRest(s, comp, r) ==
    IF ~r.ok THEN [ok |-> FALSE, comp |-> EmptyCompound, next |-> 0]
    ELSE ReadCompound(s, r.next, WithSimple(comp, r), FALSE)

\* The compound selector starting at s[i]; first: nothing of it is read yet.
ReadCompound(s, i, comp, first) ==
    IF CompoundEnds(s, i, first) THEN [ok |-> ~first, comp |-> comp, next |-> i]
    ELSE ReadCompoundRest(s, comp, ReadSimple(s, i))

RECURSIVE SkipSpaces(_, _)
SkipSpaces(s, i) == IF i <= Len(s) /\ s[i] = " " THEN SkipSpaces(s, i + 1) ELSE i

RECURSIVE ReadComplex(_, _, _, _)

\* After a compound that ended at position e, with the spaces skipped to j.
ReadComplexRest(s, parts, e, j) ==
    IF j > Len(s) \/ s[j] = "," THEN [ok |-> TRUE, parts |-> parts, next |-> j]
    ELSE IF s[j] \in {">", "~", "+"} THEN ReadComplex(s, j + 1, parts, s[j])
    ELSE IF j > e THEN ReadComplex(s, j, parts, " ")
    ELSE [ok |-> FALSE, parts |-> <<>>, next |-> 0]

ReadComplexPart(s, parts, comb, c) ==
    IF ~c.ok THEN [ok |-> FALSE, parts |-> <<>>, next |-> 0]
    ELSE ReadComplexRest(s, Append(parts, [comb |-> comb, comp |-> c.comp]),
                         c.next, SkipSpaces(s, c.next))

\* A complex selector: compounds joined by combinators.  parts[k].comb is the
\* combinator between compound k-1 and compound k.
ReadComplex(s, i, parts, comb) ==
    ReadComplexPart(s, parts, comb, ReadCompound(s, SkipSpaces(s, i), EmptyCompound, TRUE))

RECURSIVE ReadList(_, _, _)

ReadListRest(s, acc, c) ==
    IF ~c.ok THEN [ok |-> FALSE, list |-> <<>>]
    ELSE IF c.next > Len(s) THEN [ok |-> TRUE, list |-> Append(acc, c.parts)]
    ELSE ReadList(s, c.next + 1, Append(acc, c.parts))

\* A comma-separated list of complex selectors.
ReadList(s, i, acc) == ReadListRest(s, acc, ReadComplex(s, i, <<>>, ""))

\* The parsed selector list of text s, or ok = FALSE for a syntax error.
ParseSelector(s) == ReadList(s, 1, <<>>)

MatchesCompound(d, n, comp) ==
    /\ comp.tag = <<>> \/ comp.tag = <<d[n].tag>>
    /\ \A x \in comp.ids : d[n].id = x
    /\ \A c \in comp.cls : \E k \in 1..Len(d[n].classes) : d[n].classes[k] = c
    /\ \A a \in comp.attrs :
          IF a.val = <<>> THEN GetAttribute(d, n, a.name) # <<>>
          ELSE GetAttribute(d, n, a.name) = a.val
    /\ \A k \in comp.nth : SameTagIndex(d, n) = k

\* The preceding siblings of n.
PrecedingSiblings(d, n) == {m \in 1..(n - 1) : d[m].parent = d[n].parent}

RECURSIVE MatchesParts(_, _, _, _)
\* Element n matches the complex selector parts[1..k].
MatchesParts(d, n, parts, k) ==
    /\ MatchesCompound(d, n, parts[k].comp)
    /\ \/ k = 1
       \/ \E m \in 1..Len(d) :
             /\ CASE parts[k].comb = ">" -> m = d[n].parent
                  [] parts[k].comb = " " -> m \in Ancestors(d, n)
                  [] parts[k].comb = "~" -> m \in PrecedingSiblings(d, n)
                  [] parts[k].comb = "+" ->
                       /\ m \in PrecedingSiblings(d, n)
                       /\ \A o \in PrecedingSiblings(d, n) : o <= m
             /\ MatchesParts(d, m, parts, k - 1)

\* The elements of d that match a parsed selector list.
MatchingNodes(d, list) ==
    {n \in 1..Len(d) : \E c \in 1..Len(list) : MatchesParts(d, n, list[c], Len(list[c]))}

QueryResult(d, p) == [ok |-> p.ok, nodes |-> IF p.ok THEN MatchingNodes(d, p.list) ELSE {}]

\* document.querySelectorAll(s): ok = FALSE when it throws a SyntaxError,
\* else the matching elements.
QuerySelectorAll(d, s) == QueryResult(d, ParseSelector(s))

(***************************************************************************)
(* extractElements: generateSelector, the element walk, generateXPath.     *)
(***************************************************************************)

\* The characters the class tier escapes: /([:\[\](){},.>~+\s])/g
EscapedChars == {":", "[", "]", "(", ")", "{", "}", ",", ".", ">", "~", "+", " "}

\* cls.replace(/([:\[\](){},.>~+\s])/g, '\\\\$1'): the replacement text is
\* two backslash characters followed by the matched character.
EscapeClass(cls) ==
    Concat([k \in 1..Len(cls) |->
              IF cls[k] \in EscapedChars THEN <<BS, BS, cls[k]>> ELSE <<cls[k]>>])

\* `.${escapedClasses.join('.')}`
ClassSelector(classes) ==
    <<".">> \o Join([k \in 1..Len(classes) |-> EscapeClass(classes[k])], <<".">>)

\* `[data-testid="${value}"]`
TestIdSelector(v) == <<"[", "data-testid", "=", Q>> \o v \o <<Q, "]">>

\* `#${id}`
IdSelector(id) == <<"#">> \o id

\* `[role="${role}"]:has-text("${text}")`
RoleTextSelector(role, text) ==
    <<"[", "role", "=", Q>> \o role \o <<Q, "]", ":", "has-text", "(", Q>>
        \o text \o <<Q, ")">>

\* The number of characters an atom stands for; only the comparison with
\* the 50-character limit of the role+text tier depends on it.
LongText == "lorem-ipsum-60"

\* An atom standing for 60000 characters, as a data: URL has.
HugeText == "data-60000"

\* An atom standing for 199 characters of prose.
Text199 == "prose-199"

AtomLength(a) ==
    IF a = LongText THEN 60
    ELSE IF a = HugeText THEN 60000
    ELSE IF a = Text199 THEN 199
    ELSE 1

RECURSIVE TextLength(_)
TextLength(t) == IF t = <<>> THEN 0 ELSE AtomLength(Head(t)) + TextLength(Tail(t))

RECURSIVE TrimLeft(_)
TrimLeft(t) == IF t # <<>> /\ Head(t) = " " THEN TrimLeft(Tail(t)) ELSE t

RECURSIVE TrimRight(_)
TrimRight(t) ==
    IF t # <<>> /\ t[Len(t)] = " " THEN TrimRight(SubSeq(t, 1, Len(t) - 1)) ELSE t

\* String.prototype.trim
Trim(t) == TrimRight(TrimLeft(t))

RoleTextLimit == 50

\* The outcome of the class tier for classSelector, given the result q of
\* querying the document with it: the selector when the query did not throw
\* and matched exactly one element, else <<>> (nothing returned by this tier).
ClassTierResult(classSelector, q) ==
    IF q.ok /\ Cardinality(q.nodes) = 1 THEN classSelector ELSE <<>>

ClassTierOf(d, classSelector) ==
    ClassTierResult(classSelector, QuerySelectorAll(d, classSelector))

\* The class tier without the try/catch validity test: a class selector that
\* does not parse is returned as it is.
ClassTier_ReturnsUnparsed(d, el) ==
    IF Len(d[el].classes) = 0 THEN <<>>
    ELSE IF ~QuerySelectorAll(d, ClassSelector(d[el].classes)).ok
       THEN ClassSelector(d[el].classes)
    ELSE ClassTierOf(d, ClassSelector(d[el].classes))

\* The class tier of generateSelector, entered when classList is not empty.
ClassTier(d, el) ==
    IF Len(d[el].classes) > 0 THEN ClassTierOf(d, ClassSelector(d[el].classes)) ELSE <<>>

\* One level of the CSS path: the tag, with :nth-of-type(index) when the
\* parent has several children of that tag.
PathStep(d, cur) ==
    IF SameTagCount(d, cur) > 1
       THEN <<d[cur].tag, ":", "nth-of-type", "(", ToString(SameTagIndex(d, cur)), ")">>
       ELSE <<d[cur].tag>>

RECURSIVE CssPath(_, _, _)
\* The while loop of the fallback: from cur upwards, stopping below
\* document.body or at the first element with an id.
CssPath(d, cur, path) ==
    IF cur = 0 \/ cur = Body THEN path
    ELSE IF d[cur].id # <<>> THEN <<IdSelector(d[cur].id)>> \o path
    ELSE CssPath(d, d[cur].parent, <<PathStep(d, cur)>> \o path)

\* path.join(' > ')
PathSelector(d, el) == Join(CssPath(d, el, <<>>), <<" ", ">", " ">>)

\* The tiers below the id tier, given what the class tier returned.
LowerTiers(d, el, classSelector) ==
    IF classSelector # <<>> THEN classSelector
    ELSE IF /\ d[el].role # <<>>
            /\ d[el].text # <<>>
            /\ TextLength(Trim(d[el].text)) < RoleTextLimit
       THEN RoleTextSelector(d[el].role, Trim(d[el].text))
    ELSE PathSelector(d, el)

\* generateSelector with the class tier tried before the id tier.
generateSelector_ClassBeforeId(d, el) ==
    IF d[el].testid # <<>> /\ d[el].testid[1] # <<>>
       THEN TestIdSelector(d[el].testid[1])
    ELSE IF ClassTier(d, el) # <<>> THEN ClassTier(d, el)
    ELSE IF d[el].id # <<>> THEN IdSelector(d[el].id)
    ELSE LowerTiers(d, el, <<>>)

\* generateSelector with the id tier tried before the test-id tier.
generateSelector_IdBeforeTestId(d, el) ==
    IF d[el].id # <<>> THEN IdSelector(d[el].id)
    ELSE IF d[el].testid # <<>> /\ d[el].testid[1] # <<>>
       THEN TestIdSelector(d[el].testid[1])
    ELSE LowerTiers(d, el, ClassTier(d, el))

\* generateSelector of extractElements.
generateSelector(d, el) ==
    IF d[el].testid # <<>> /\ d[el].testid[1] # <<>>
       THEN TestIdSelector(d[el].testid[1])
    ELSE IF d[el].id # <<>> THEN IdSelector(d[el].id)
    ELSE LowerTiers(d, el, ClassTier(d, el))

\* 'button, input, select, textarea, a, [onclick], [data-testid],
\*  [role="button"], [role="link"]'
interactiveSelectors ==
    <<"button", ",", " ", "input", ",", " ", "select", ",", " ", "textarea", ",", " ",
      "a", ",", " ", "[", "onclick", "]", ",", " ", "[", "data-testid", "]", ",", " ",
      "[", "role", "=", Q, "button", Q, "]", ",", " ",
      "[", "role", "=", Q, "link", Q, "]">>

RECURSIVE InOrder(_, _, _)
\* The members of set among 1..n, ascending (document order), from i on.
InOrder(set, n, i) ==
    IF i > n THEN <<>>
    ELSE (IF i \in set THEN <<i>> ELSE <<>>) \o InOrder(set, n, i + 1)

\* document.querySelectorAll(interactiveSelectors), in document order.
Enumerated(d) == InOrder(QuerySelectorAll(d, interactiveSelectors).nodes, Len(d), 1)

\* getXPath: the id form, else one tag[index] step per ancestor-or-self up to
\* the html element.
RECURSIVE XPathSteps(_, _, _)
XPathSteps(d, cur, path) ==
    IF cur = 0 THEN <<<<"html", "[", "1", "]">>>> \o path
    ELSE XPathSteps(d, d[cur].parent,
                    <<<<d[cur].tag, "[", ToString(SameTagIndex(d, cur)), "]">>>> \o path)

getXPath_IgnoresId(d, el) == <<"/">> \o Join(XPathSteps(d, el, <<>>), <<"/">>)

getXPath(d, el) ==
    IF d[el].id # <<>>
       THEN <<"/", "/", "*", "[", "@", "id", "=", Q>> \o d[el].id \o <<Q, "]">>
       ELSE <<"/">> \o Join(XPathSteps(d, el, <<>>), <<"/">>)

\* The path of the first element (document order) of a query result; <<>>
\* (undefined) when the query threw or matched nothing.
FirstMatchPath(d, q) ==
    IF ~q.ok \/ q.nodes = {} THEN <<>>
    ELSE getXPath(d, CHOOSE n \in q.nodes : \A m \in q.nodes : n <= m)

\* generateXPath(page, cssSelector)
generateXPath(d, selector) == FirstMatchPath(d, QuerySelectorAll(d, selector))

\* The descriptor pushed for element el, whose selector has been generated,
\* with the xpath the later loop adds.
Descriptor(d, el, selector) ==
    [tag |-> d[el].tag,
     id |-> d[el].id,
     classes |-> d[el].classes,
     testId |-> IF d[el].testid = <<>> THEN <<>> ELSE d[el].testid[1],
     text |-> Trim(d[el].text),
     selector |-> selector,
     xpath |-> generateXPath(d, selector)]

ElementInfo(d, el) == Descriptor(d, el, generateSelector(d, el))

DescriptorsOf(d, els) == [k \in 1..Len(els) |-> ElementInfo(d, els[k])]

\* extractElements(page)
extractElements(d) == DescriptorsOf(d, Enumerated(d))

NoSnapshot == [done |-> FALSE, elements |-> <<>>]

EmptyDocument == <<NewNode("body", 0)>>

(***************************************************************************)
(* findBestMatchingElement.  The matcher compares characters, so its        *)
(* strings are sequences of single characters.  An optional field of an     *)
(* element is <<>> when undefined and <<s>> when it holds the string s.     *)
(***************************************************************************)

UpperCase ==
    <<"A", "B", "C", "D", "E", "F", "G", "H", "I", "J", "K", "L", "M",
      "N", "O", "P", "Q", "R", "S", "T", "U", "V", "W", "X", "Y", "Z">>

LowerCase ==
    <<"a", "b", "c", "d", "e", "f", "g", "h", "i", "j", "k", "l", "m",
      "n", "o", "p", "q", "r", "s", "t", "u", "v", "w", "x", "y", "z">>

ToLowerChar(c) ==
    IF \E i \in 1..Len(UpperCase) : UpperCase[i] = c
       THEN LowerCase[CHOOSE i \in 1..Len(UpperCase) : UpperCase[i] = c]
       ELSE c

\* String.prototype.toLowerCase
toLowerCase(s) == [i \in 1..Len(s) |-> ToLowerChar(s[i])]

\* String.prototype.includes
includes(s, sub) ==
    \E i \in 0..(Len(s) - Len(sub)) : SubSeq(s, i + 1, i + Len(sub)) = sub

\* The class \s of the regular expressions.
IsSpace(c) == c \in {" ", "\t", "\n", "\r"}

StartsSpaceRun(s, i) == IsSpace(s[i]) /\ (i = 1 \/ ~IsSpace(s[i - 1]))

ReplacedChar(s, i) ==
    IF ~IsSpace(s[i]) THEN <<s[i]>>
    ELSE IF StartsSpaceRun(s, i) THEN <<"-">>
    ELSE <<>>

RECURSIVE ReplaceSpacesFrom(_, _)
ReplaceSpacesFrom(s, i) ==
    IF i > Len(s) THEN <<>>
    ELSE ReplacedChar(s, i) \o ReplaceSpacesFrom(s, i + 1)

\* s.replace(/\s+/g, '-')
ReplaceSpaces(s) == ReplaceSpacesFrom(s, 1)

WordAfter(s, i, word) ==
    IF IsSpace(s[i]) THEN <<>> ELSE Append(word, s[i])

WordsAfter(s, i, word, acc) ==
    IF StartsSpaceRun(s, i) THEN Append(acc, word) ELSE acc

RECURSIVE SplitFrom(_, _, _, _)
SplitFrom(s, i, word, acc) ==
    IF i > Len(s) THEN Append(acc, word)
    ELSE SplitFrom(s, i + 1, WordAfter(s, i, word), WordsAfter(s, i, word, acc))

\* s.split(/\s+/)
Split(s) == SplitFrom(s, 1, <<>>, <<>>)

StrButton == <<"b", "u", "t", "t", "o", "n">>

StrA == <<"a">>

StrInput == <<"i", "n", "p", "u", "t">>

StrTextarea == <<"t", "e", "x", "t", "a", "r", "e", "a">>

StrSelect == <<"s", "e", "l", "e", "c", "t">>

StrSubmit == <<"s", "u", "b", "m", "i", "t">>

StrCheckbox == <<"c", "h", "e", "c", "k", "b", "o", "x">>

StrRadio == <<"r", "a", "d", "i", "o">>

IsFlagged(el) == el.isVisible /\ el.isInteractive

IsClickable(el) ==
    \/ el.tag = StrButton
    \/ el.tag = StrA
    \/ el.type = <<StrSubmit>>
    \/ el.type = <<StrButton>>
    \/ el.type = <<StrCheckbox>>
    \/ el.type = <<StrRadio>>

IsTypeable(el) ==
    \/ el.tag = StrInput /\ el.type # <<StrSubmit>> /\ el.type # <<StrButton>>
    \/ el.tag = StrTextarea

IsSelectable(el) == el.tag = StrSelect

ByAction(filtered, action) ==
    CASE action = "click" -> SelectSeq(filtered, IsClickable)
      [] action \in {"type", "fill"} -> SelectSeq(filtered, IsTypeable)
      [] action = "select" -> SelectSeq(filtered, IsSelectable)
      [] OTHER -> filtered

filterRelevantElements_IgnoreFlags(els, action) == ByAction(els, action)

filterRelevantElements_NoNarrowing(els, action) == SelectSeq(els, IsFlagged)

filterRelevantElements(els, action) ==
    ByAction(SelectSeq(els, IsFlagged), action)

TextScore_ExactBelowPlaceholder(element, targetLower) ==
    IF element.text # <<>> /\ toLowerCase(element.text[1]) = targetLower
       THEN 12
    ELSE IF element.text # <<>>
            /\ includes(toLowerCase(element.text[1]), targetLower)
       THEN 10
    ELSE 0

TextScore(element, targetLower) ==
    IF element.text # <<>> /\ toLowerCase(element.text[1]) = targetLower
       THEN 20
    ELSE IF element.text # <<>>
            /\ includes(toLowerCase(element.text[1]), targetLower)
       THEN 10
    ELSE 0

PlaceholderScore(element, targetLower) ==
    IF element.placeholder # <<>>
       /\ includes(toLowerCase(element.placeholder[1]), targetLower)
       THEN 15 ELSE 0

TestIdScore(element, targetLower) ==
    IF element.testId # <<>>
       /\ includes(toLowerCase(element.testId[1]), ReplaceSpaces(targetLower))
       THEN 18 ELSE 0

IdScore(element, targetLower) ==
    IF element.id # <<>>
       /\ includes(toLowerCase(element.id[1]), ReplaceSpaces(targetLower))
       THEN 16 ELSE 0

NameScore(element, targetLower) ==
    IF element.name # <<>>
       /\ includes(toLowerCase(element.name[1]), targetLower)
       THEN 12 ELSE 0

TypeScore(element, targetLower) ==
    IF element.type # <<>> /\ element.type[1] # <<>>
       /\ includes(targetLower, element.type[1])
       THEN 5 ELSE 0

TagScore(element, targetLower) ==
    IF includes(targetLower, element.tag) THEN 3 ELSE 0

WordScore(classes, word) ==
    IF \E k \in 1..Len(classes) : includes(toLowerCase(classes[k]), word)
       THEN 4 ELSE 0

RECURSIVE ClassScoreFrom(_, _, _)
ClassScoreFrom(classes, targetWords, k) ==
    IF k > Len(targetWords) THEN 0
    ELSE WordScore(classes, targetWords[k])
         + ClassScoreFrom(classes, targetWords, k + 1)

ClassScore(element, targetLower) ==
    ClassScoreFrom(element.classes, Split(targetLower), 1)

Score_FirstChannelOnly(element, targetLower) ==
    IF TextScore(element, targetLower) > 0
       THEN TextScore(element, targetLower)
       ELSE PlaceholderScore(element, targetLower)
            + TestIdScore(element, targetLower)
            + IdScore(element, targetLower)
            + NameScore(element, targetLower)
            + TypeScore(element, targetLower)
            + TagScore(element, targetLower)
            + ClassScore(element, targetLower)

\* The score the map callback gives one element.
Score(element, targetLower) ==
    TextScore(element, targetLower)
    + PlaceholderScore(element, targetLower)
    + TestIdScore(element, targetLower)
    + IdScore(element, targetLower)
    + NameScore(element, targetLower)
    + TypeScore(element, targetLower)
    + TagScore(element, targetLower)
    + ClassScore(element, targetLower)

ScoreAll(relevantElements, targetLower) ==
    [k \in 1..Len(relevantElements) |->
        [element |-> relevantElements[k],
         score |-> Score(relevantElements[k], targetLower)]]

\* One insertion of the stable sort under the comparator b.score - a.score.
RECURSIVE InsertByScore(_, _)
InsertByScore(sorted, x) ==
    IF sorted = <<>> THEN <<x>>
    ELSE IF Head(sorted).score >= x.score
       THEN <<Head(sorted)>> \o InsertByScore(Tail(sorted), x)
    ELSE <<x>> \o sorted

RECURSIVE SortFrom(_, _, _)
SortFrom(scored, k, sorted) ==
    IF k > Len(scored) THEN sorted
    ELSE SortFrom(scored, k + 1, InsertByScore(sorted, scored[k]))

\* A sort that puts the later of two equal scores first.
SortByScore_LaterTieFirst(scored) ==
    SortFrom([k \in 1..Len(scored) |-> scored[Len(scored) + 1 - k]], 1, <<>>)

\* scored.sort((a, b) => b.score - a.score)
SortByScore(scored) == SortFrom(scored, 1, <<>>)

\* The return: <<>> is null, <<e>> is the element e.
BestOf(scored) ==
    IF Len(scored) > 0 /\ scored[1].score >= 5
       THEN <<scored[1].element>>
       ELSE <<>>

\* The sorted array scored, as the matcher holds it before it returns.
ScoredCandidates(target, els, action) ==
    SortByScore(ScoreAll(filterRelevantElements(els, action),
                         toLowerCase(target)))

findBestMatchingElement_Unsorted(target, els, action) ==
    BestOf(ScoreAll(filterRelevantElements(els, action), toLowerCase(target)))

findBestMatchingElement(target, els, action) ==
    BestOf(SortByScore(ScoreAll(filterRelevantElements(els, action),
                                toLowerCase(target))))

\* Optional fields the map callback dereferences without ?. or a truthiness
\* test in front: there are none.
UnguardedReads == {}

ScoreThrows_UnguardedPlaceholder(element) == element.placeholder = <<>>

\* Scoring the element raises a TypeError.
ScoreThrows(element) == \E f \in UnguardedReads : element[f] = <<>>

SomeScoreThrows(relevantElements) ==
    \E k \in 1..Len(relevantElements) : ScoreThrows(relevantElements[k])

\* findBestMatchingElement throws instead of returning.
MatcherThrows(els, action) ==
    SomeScoreThrows(filterRelevantElements(els, action))

\* An intent as the fallback finds it: no selector yet.
Intent(confidence) == [selector |-> <<>>, confidence |-> confidence]

\* if (matchedElement) { selector = matchedElement.selector; confidence = 0.8 }
\* with confidences in hundredths.
Fallback(intent, matched) ==
    IF matched # <<>>
       THEN [selector |-> <<matched[1].selector>>, confidence |-> 80]
       ELSE intent

NoMatch ==
    [done |-> FALSE, target |-> <<>>, action |-> "", scored |-> <<>>,
     element |-> <<>>, threw |-> FALSE, base |-> Intent(0),
     intent |-> Intent(0), repeated |-> FALSE, second |-> <<>>]

\* Concurrent POST /:id/execute requests for the one script.
MaxRequests == 2

Requests == 1..MaxRequests

\* No execution record has been created.
NoExecutions == [r \in Requests |-> "none"]

\* A handler's position and the result of the race it awaited.
Idle == [pc |-> "idle", success |-> FALSE]

NoRequests == [r \in Requests |-> Idle]

(***************************************************************************)
(* analyzePage                                                             *)
(***************************************************************************)

\* Concurrent analyzePage calls on the one service (Promise.all over intents).
MaxCalls == 2

Calls == 1..MaxCalls

NoBrowser == 0

\* The awaits of analyzePage between newPage and close, in program order.
StepOrder == <<"goto", "wait", "title", "elements", "forms", "dom", "close">>

StepIndex(s) == CHOOSE i \in 1..Len(StepOrder) : StepOrder[i] = s

Init ==
    /\ browser = NoBrowser
    /\ launched = {}
    /\ pc = [c \in Calls |-> "idle"]
    /\ page = [c \in Calls |-> "none"]
    /\ pageOf = [c \in Calls |-> NoBrowser]
    /\ failedAt = [c \in Calls |-> "none"]
    /\ doc = EmptyDocument
    /\ snap = NoSnapshot
    /\ contextElements = <<>>
    /\ matchedElement = NoMatch
    /\ scriptStatus = "ready"
    /\ executions = NoExecutions
    /\ request = NoRequests

\* Entry of analyzePage up to its first await: the null test on this.browser
\* and either chromium.launch(...) or this.browser.newPage().
Call(c) ==
    /\ pc[c] = "idle"
    /\ IF browser = NoBrowser
          THEN /\ pc' = [pc EXCEPT ![c] = "launch"]
               /\ UNCHANGED pageOf
          ELSE /\ pc' = [pc EXCEPT ![c] = "newPage"]
               /\ pageOf' = [pageOf EXCEPT ![c] = browser]
    /\ UNCHANGED <<browser, launched, page>>
    /\ UNCHANGED <<failedAt, snapshotVars, matchVars, executeVars>>

\* chromium.launch resolves: the assignment to this.browser, then
\* this.browser.newPage() is issued in the same turn.
LaunchOk(c) ==
    /\ pc[c] = "launch"
    /\ LET b == Cardinality(launched) + 1
       IN  /\ launched' = launched \cup {b}
           /\ browser' = b
           /\ pageOf' = [pageOf EXCEPT ![c] = b]
    /\ pc' = [pc EXCEPT ![c] = "newPage"]
    /\ UNCHANGED page
    /\ UNCHANGED <<failedAt, snapshotVars, matchVars, executeVars>>

\* newPage resolves: the page exists, page.goto is issued.
NewPageOk(c) ==
    /\ pc[c] = "newPage"
    /\ page' = [page EXCEPT ![c] = "open"]
    /\ pc' = [pc EXCEPT ![c] = "goto"]
    /\ UNCHANGED <<browser, launched, pageOf>>
    /\ UNCHANGED <<failedAt, snapshotVars, matchVars, executeVars>>

\* One of goto, waitForTimeout, title, extractElements, extractForms,
\* extractDOMContent resolves and the next await is issued.
StepOk(c) ==
    /\ pc[c] \in {"goto", "wait", "title", "elements", "forms", "dom"}
    /\ pc' = [pc EXCEPT ![c] = StepOrder[StepIndex(pc[c]) + 1]]
    /\ UNCHANGED <<browser, launched, page, pageOf>>
    /\ UNCHANGED <<failedAt, snapshotVars, matchVars, executeVars>>

\* page.close() resolves and analyzePage returns the PageContext.
CloseOk(c) ==
    /\ pc[c] = "close"
    /\ page' = [page EXCEPT ![c] = "closed"]
    /\ pc' = [pc EXCEPT ![c] = "returned"]
    /\ UNCHANGED <<browser, launched, pageOf>>
    /\ UNCHANGED <<failedAt, snapshotVars, matchVars, executeVars>>

\* An awaited promise rejects: control enters the catch block, which logs and
\* rethrows.  extractDOMContent catches its own errors and cannot reject.
Throw_DropsBrowser(c) ==
    /\ pc[c] \in {"launch", "newPage", "goto", "wait", "title", "elements", "forms", "close"}
    /\ pc' = [pc EXCEPT ![c] = "threw"]
    /\ failedAt' = [failedAt EXCEPT ![c] = pc[c]]
    /\ browser' = NoBrowser
    /\ UNCHANGED <<launched, page, pageOf>>
    /\ UNCHANGED <<snapshotVars, matchVars, executeVars>>

Throw(c) ==
    /\ pc[c] \in {"launch", "newPage", "goto", "wait", "title", "elements", "forms", "close"}
    /\ pc' = [pc EXCEPT ![c] = "threw"]
    /\ failedAt' = [failedAt EXCEPT ![c] = pc[c]]
    /\ UNCHANGED <<browser, launched, page, pageOf>>
    /\ UNCHANGED <<snapshotVars, matchVars, executeVars>>

Next ==
    \E c \in Calls :
        \/ Call(c)
        \/ LaunchOk(c)
        \/ NewPageOk(c)
        \/ StepOk(c)
        \/ CloseOk(c)
        \/ Throw(c)

Spec == Init /\ [][Next]_vars

Terminated(c) == pc[c] \in {"returned", "threw"}

\* C1: no analyzePage call terminates, by returning or by throwing, while the
\* page it opened is still open.
C1_PageClosedOnEveryPath ==
    \A c \in Calls : Terminated(c) => page[c] # "open"

\* C2: over all interleavings of concurrent calls the shared browser is
\* launched at most once and no launched browser is left unreferenced.
C2_SingleLaunch ==
    /\ Cardinality(launched) <= 1
    /\ launched \subseteq {browser}

(***************************************************************************)
(* The snapshot of a page: the document navigation delivers, then          *)
(* extractElements on it.                                                  *)
(***************************************************************************)

\* Elements below body plus attributes set, over the whole document.
MaxDocSize == 4

Tags == {"div", "button"}

ClassA == <<"a">>

ClassB == <<"b">>

ClassADotB == <<"a", ".", "b">>

ClassAColonB == <<"a", ":", "b">>

ClassABackslash == <<"a", BS>>

\* The values page content gives each attribute.
AttrValues ==
    [id |-> {<<"x">>, <<"x", ".", "y">>},
     classes |-> {<<ClassA>>, <<ClassA, ClassB>>, <<ClassADotB>>,
                  <<ClassADotB, ClassABackslash, ClassB>>, <<ClassAColonB>>},
     testid |-> {<< <<>> >>, << <<"t">> >>},
     role |-> {<<"button">>},
     text |-> {<<"Login">>, <<LongText>>}]

AttrNames == DOMAIN AttrValues

DocSize(d) ==
    (Len(d) - 1)
    + Cardinality({<<n, a>> \in (1..Len(d)) \X AttrNames : d[n][a] # <<>>})

InitSnapshot ==
    /\ browser = NoBrowser
    /\ launched = {}
    /\ pc = [c \in Calls |-> "idle"]
    /\ page = [c \in Calls |-> "none"]
    /\ pageOf = [c \in Calls |-> NoBrowser]
    /\ failedAt = [c \in Calls |-> "none"]
    /\ doc = EmptyDocument
    /\ snap = NoSnapshot
    /\ contextElements = <<>>
    /\ matchedElement = NoMatch
    /\ scriptStatus = "ready"
    /\ executions = NoExecutions
    /\ request = NoRequests

\* The page's markup adds an element as the last child of an open element.
AppendChild(p, t) ==
    /\ ~snap.done
    /\ DocSize(doc) < MaxDocSize
    /\ p \in {Len(doc)} \cup Ancestors(doc, Len(doc))
    /\ doc' = Append(doc, NewNode(t, p))
    /\ UNCHANGED <<executeVars, analyzeVars, matchVars, snap>>

\* The page's markup gives element n the attribute a with value v.
SetAttribute(n, a, v) ==
    /\ ~snap.done
    /\ DocSize(doc) < MaxDocSize
    /\ doc[n][a] = <<>>
    /\ doc' = [doc EXCEPT ![n][a] = v]
    /\ UNCHANGED <<executeVars, analyzeVars, matchVars, snap>>

\* extractElements runs on the loaded page.
Extract ==
    /\ ~snap.done
    /\ snap' = [done |-> TRUE, elements |-> extractElements(doc)]
    /\ UNCHANGED <<executeVars, analyzeVars, matchVars, doc>>

NextSnapshot ==
    \/ \E p \in 1..MaxDocSize, t \in Tags : p <= Len(doc) /\ AppendChild(p, t)
    \/ \E n \in 1..(MaxDocSize + 1), a \in AttrNames :
          /\ n <= Len(doc)
          /\ \E v \in AttrValues[a] : SetAttribute(n, a, v)
    \/ Extract

SpecSnapshot == InitSnapshot /\ [][NextSnapshot]_vars

\* The element the k-th descriptor of the snapshot was built from.
NodeOf(k) == Enumerated(doc)[k]

Descriptors == 1..Len(snap.elements)

HasTestId(n) == doc[n].testid # <<>> /\ doc[n].testid[1] # <<>>

HasId(n) == doc[n].id # <<>>

\* C3: every descriptor of a snapshot has a non-empty selector.
C3_SelectorNonEmpty ==
    snap.done => \A k \in Descriptors : snap.elements[k].selector # <<>>

\* The class names of element n, as a set.
ClassSet(n) == {doc[n].classes[i] : i \in 1..Len(doc[n].classes)}

\* Some other element carries every class of n.
ClassesShared(n) ==
    \E m \in 1..Len(doc) : m # n /\ ClassSet(n) \subseteq ClassSet(m)

\* Element n reaches the class tier: no test-id, no id, a class list.
ReachesClassTier(n) == ~HasTestId(n) /\ ~HasId(n) /\ Len(doc[n].classes) > 0

\* The query with selector text s resolves to exactly the elements of set.
ResolvesTo(s, set) ==
    QuerySelectorAll(doc, s).ok /\ QuerySelectorAll(doc, s).nodes = set

ResolvesToOne(s) ==
    QuerySelectorAll(doc, s).ok /\ Cardinality(QuerySelectorAll(doc, s).nodes) = 1

\* C4: a class-based selector is returned only if the query with it yields
\* exactly one element, and an element whose class set another element also
\* carries never gets the class selector.
C4_ClassSelectorOnlyWhenUnique ==
    snap.done =>
        \A k \in Descriptors :
            ReachesClassTier(NodeOf(k)) =>
                /\ snap.elements[k].selector = ClassSelector(doc[NodeOf(k)].classes)
                      => ResolvesToOne(snap.elements[k].selector)
                /\ ClassesShared(NodeOf(k))
                      => snap.elements[k].selector # ClassSelector(doc[NodeOf(k)].classes)

\* The id of n is carried by no other element.
UniqueId(n) == HasId(n) /\ \A m \in 1..Len(doc) : m # n => doc[m].id # doc[n].id

\* The text consists of identifier characters only.
IsPlainIdent(t) == \A i \in 1..Len(t) : IsIdentAtom(t[i])

ReachesPathTier(n) ==
    /\ ~HasTestId(n) /\ ~HasId(n) /\ Len(doc[n].classes) = 0
    /\ ~(/\ doc[n].role # <<>>
         /\ doc[n].text # <<>>
         /\ TextLength(Trim(doc[n].text)) < RoleTextLimit)

\* C6: two same-tag siblings without id, class or test-id get different
\* structural-path selectors, and each selector, queried against the whole
\* document, resolves to exactly the element it was built from.
C6_SiblingPathsUnique ==
    snap.done =>
        \A k1, k2 \in Descriptors :
            /\ k1 # k2
            /\ doc[NodeOf(k1)].parent = doc[NodeOf(k2)].parent
            /\ doc[NodeOf(k1)].tag = doc[NodeOf(k2)].tag
            /\ ReachesPathTier(NodeOf(k1)) /\ ReachesPathTier(NodeOf(k2))
            => /\ snap.elements[k1].selector # snap.elements[k2].selector
               /\ ResolvesTo(snap.elements[k1].selector, {NodeOf(k1)})

\* The selectors the class, role+text and structural tiers can produce for an
\* element n that has neither test-id nor id.
LowerTierSelectors(n) ==
    {ClassSelector(doc[n].classes),
     RoleTextSelector(doc[n].role, Trim(doc[n].text)),
     PathSelector(doc, n)}

\* C7: the tiers apply in fixed priority: a non-empty test-id always gives
\* the data-testid selector; without it an id always gives the id selector;
\* the class, role+text and structural tiers give the selector only when
\* both are absent.
C7_TierPriority ==
    snap.done =>
        \A k \in Descriptors :
            /\ HasTestId(NodeOf(k))
                  => snap.elements[k].selector = TestIdSelector(doc[NodeOf(k)].testid[1])
            /\ ~HasTestId(NodeOf(k)) /\ HasId(NodeOf(k))
                  => snap.elements[k].selector = IdSelector(doc[NodeOf(k)].id)
            /\ ~HasTestId(NodeOf(k)) /\ ~HasId(NodeOf(k))
                  => snap.elements[k].selector \in LowerTierSelectors(NodeOf(k))

C7_Witness ==
    /\ snap.done
    /\ \E k \in Descriptors :
          /\ HasTestId(NodeOf(k)) /\ HasId(NodeOf(k))
          /\ Len(doc[NodeOf(k)].classes) > 0
          /\ snap.elements[k].selector = TestIdSelector(doc[NodeOf(k)].testid[1])

(***************************************************************************)
(* The matcher over the elements of an analysed page                       *)
(***************************************************************************)

\* Elements a page context holds when the matcher runs.
MaxElements == 2

Element(tag, type, text, classes) ==
    [tag |-> tag, id |-> <<>>, classes |-> classes, testId |-> <<>>,
     text |-> text, placeholder |-> <<>>, type |-> type, name |-> <<>>,
     selector |-> tag, isVisible |-> TRUE, isInteractive |-> TRUE]

StrLogin == <<"L", "o", "g", "i", "n">>

StrLoginName == <<"L", "o", "g", "i", "n", " ", "n", "a", "m", "e">>

StrLoginNow == <<"L", "o", "g", "i", "n", " ", "n", "o", "w">>

StrLoginLink == <<"l", "o", "g", "i", "n", "-", "l", "i", "n", "k">>

StrSignIn == <<"S", "i", "g", "n", " ", "i", "n">>

StrSignInId == <<"s", "i", "g", "n", "-", "i", "n">>

StrSignBtn == <<"s", "i", "g", "n", "-", "b", "t", "n">>

StrText == <<"t", "e", "x", "t">>

StrQuux == <<"q", "u", "u", "x">>

StrSixWords == <<"x", " ", "y", " ", "z", " ", "w", " ", "v", " ", "u">>

StrContext == <<"C", "o", "n", "t", "e", "x", "t">>

StrSixLetters == <<"x", "y", "z", "w", "v", "u">>

LoginButton == Element(StrButton, <<>>, <<StrLogin>>, <<>>)

SubmitInput == Element(StrInput, <<StrSubmit>>, <<>>, <<>>)

LoginField ==
    [Element(StrInput, <<StrText>>, <<>>, <<>>)
        EXCEPT !.placeholder = <<StrLoginName>>]

SignInArea ==
    [Element(StrTextarea, <<>>, <<>>, <<>>) EXCEPT !.testId = <<StrSignInId>>]

LoginSelect ==
    [Element(StrSelect, <<>>, <<>>, <<StrSignBtn>>)
        EXCEPT !.name = <<toLowerCase(StrLogin)>>]

LoginLink ==
    [Element(StrA, <<>>, <<StrLoginNow>>, <<>>) EXCEPT !.id = <<StrLoginLink>>]

LoginCheckbox ==
    Element(StrInput, <<StrCheckbox>>, <<>>, <<toLowerCase(StrLogin)>>)

SignInButton == Element(StrButton, <<StrSubmit>>, <<StrSignIn>>, <<>>)

SixWordsButton == Element(StrButton, <<>>, <<StrSixWords>>, <<>>)

SixLettersButton == Element(StrButton, <<>>, <<>>, <<StrSixLetters>>)

Hidden(el) == [el EXCEPT !.isVisible = FALSE]

Disabled(el) == [el EXCEPT !.isInteractive = FALSE]

PageElements ==
    {LoginButton, SubmitInput, LoginField, SignInArea, LoginSelect,
     LoginLink, LoginCheckbox, SignInButton, SixWordsButton,
     SixLettersButton,
     Hidden(LoginLink), Disabled(LoginButton), Hidden(LoginField),
     Disabled(SignInArea)}

\* Target descriptions of an intent; the caller passes only truthy targets.
Targets ==
    {StrLogin, StrSubmit, StrQuux, StrSignIn, StrInput, StrSixWords, StrContext}

Actions == {"click", "type", "fill", "select", "assert"}

\* Confidence of the parsed intent, in hundredths.
Confidences == {50, 90}

InitMatch ==
    /\ browser = NoBrowser
    /\ launched = {}
    /\ pc = [c \in Calls |-> "idle"]
    /\ page = [c \in Calls |-> "none"]
    /\ pageOf = [c \in Calls |-> NoBrowser]
    /\ failedAt = [c \in Calls |-> "none"]
    /\ doc = EmptyDocument
    /\ snap = NoSnapshot
    /\ contextElements = <<>>
    /\ matchedElement = NoMatch
    /\ scriptStatus = "ready"
    /\ executions = NoExecutions
    /\ request = NoRequests

\* Page analysis reports one more element.
AddElement(el) ==
    /\ ~matchedElement.done
    /\ Len(contextElements) < MaxElements
    /\ contextElements' = Append(contextElements, el)
    /\ UNCHANGED <<executeVars, analyzeVars, snapshotVars, matchedElement>>

\* The fallback of enhanceIntentWithPageContext calls the matcher.
FindBest(target, action, confidence) ==
    /\ ~matchedElement.done
    /\ target # <<>>
    /\ matchedElement' =
          [done |-> TRUE, target |-> target, action |-> action,
           scored |-> ScoredCandidates(target, contextElements, action),
           element |-> findBestMatchingElement(target, contextElements, action),
           threw |-> MatcherThrows(contextElements, action),
           base |-> Intent(confidence),
           intent |->
              Fallback(Intent(confidence),
                       findBestMatchingElement(target, contextElements,
                                               action)),
           repeated |-> FALSE, second |-> <<>>]
    /\ UNCHANGED <<executeVars, analyzeVars, snapshotVars, contextElements>>

NextMatch ==
    \/ \E el \in PageElements : AddElement(el)
    \/ \E target \in Targets, action \in Actions, confidence \in Confidences :
          FindBest(target, action, confidence)

SpecMatch == InitMatch /\ [][NextMatch]_vars

\* The matcher returned an element.
Found == matchedElement.done /\ matchedElement.element # <<>>

Returned == matchedElement.element[1]

\* The score of an element for the description of the call made.
ScoreOf(el) == Score(el, toLowerCase(matchedElement.target))

InContext(el) == \E k \in 1..Len(contextElements) : contextElements[k] = el

\* C8: whatever the action and the description, an element the matcher
\* returns has both its visibility flag and its interactivity flag set.
C8_ReturnedIsVisibleInteractive ==
    Found => Returned.isVisible /\ Returned.isInteractive

\* The matcher returned an element although the page holds a hidden or
\* disabled element that scores strictly higher for the same description.
C8_Witness ==
    /\ Found
    /\ \E k \in 1..Len(contextElements) :
          /\ ~(contextElements[k].isVisible /\ contextElements[k].isInteractive)
          /\ ScoreOf(contextElements[k]) > ScoreOf(Returned)

AllowedFor(action, el) ==
    /\ el.isVisible /\ el.isInteractive
    /\ action = "click" =>
          \/ el.tag \in {StrButton, StrA}
          \/ el.type \in {<<StrSubmit>>, <<StrButton>>,
                          <<StrCheckbox>>, <<StrRadio>>}
    /\ action \in {"type", "fill"} =>
          \/ el.tag = StrInput /\ el.type \notin {<<StrSubmit>>, <<StrButton>>}
          \/ el.tag = StrTextarea
    /\ action = "select" => el.tag = StrSelect

\* C9: the returned element is one of the page's elements and belongs to
\* the set allowed for the action: for type/fill an input that is not typed
\* submit or button, or a textarea (never a button); for click a button, an
\* anchor or an element typed submit/button/checkbox/radio; for select a
\* select; for any other action any visible interactive element.
C9_ReturnedAllowedForAction ==
    Found => /\ InContext(Returned)
             /\ AllowedFor(matchedElement.action, Returned)
             /\ matchedElement.action \in {"type", "fill"}
                   => Returned.tag # StrButton

\* A type call returned an element while a visible interactive button of the
\* page scores strictly higher for the description.
C9_Witness ==
    /\ Found
    /\ matchedElement.action = "type"
    /\ \E k \in 1..Len(contextElements) :
          /\ contextElements[k].tag = StrButton
          /\ contextElements[k].isVisible /\ contextElements[k].isInteractive
          /\ ScoreOf(contextElements[k]) > ScoreOf(Returned)

Candidates == filterRelevantElements(contextElements, matchedElement.action)

CandidateScores == {ScoreOf(Candidates[k]) : k \in 1..Len(Candidates)}

\* C10: the matcher returns an element exactly when some filtered candidate
\* scores at least 5; the element returned is a candidate whose score no
\* other candidate exceeds; with no candidate, or all scores below 5, it
\* returns null.
C10_ReturnsMaxIffThreshold ==
    matchedElement.done =>
        /\ Found <=> \E s \in CandidateScores : s >= 5
        /\ Found => /\ \E k \in 1..Len(Candidates) : Candidates[k] = Returned
                    /\ \A s \in CandidateScores : s <= ScoreOf(Returned)

\* The returned element is not the first candidate: an earlier candidate
\* scores lower, so the sort has reordered the list.
C10_Witness ==
    /\ Found
    /\ Len(Candidates) >= 2
    /\ ScoreOf(Candidates[1]) < ScoreOf(Returned)
    /\ ScoreOf(Candidates[1]) >= 5

\* The matcher returned null although the page has candidates, all of them
\* scoring below the threshold.
C10_BelowThreshold ==
    /\ matchedElement.done
    /\ ~Found
    /\ Candidates # <<>>
    /\ \E s \in CandidateScores : s > 0

\* The returned element scores exactly the threshold.
C10_AtThreshold == Found /\ ScoreOf(Returned) = 5

(***************************************************************************)
(* Scoring channels                                                        *)
(***************************************************************************)

\* The description of the call made, as the matcher compares it.
TargetLower == toLowerCase(matchedElement.target)

\* The weight of each channel, read off the scoring of an element that
\* meets the channel's condition.
WeightOf ==
    [textExact |-> TextScore(LoginButton, toLowerCase(StrLogin)),
     textSubstring |-> TextScore(LoginLink, toLowerCase(StrLogin)),
     placeholder |-> PlaceholderScore(LoginField, toLowerCase(StrLogin)),
     testId |-> TestIdScore(SignInArea, toLowerCase(StrSignIn)),
     id |-> IdScore(LoginLink, toLowerCase(StrLogin)),
     name |-> NameScore(LoginSelect, toLowerCase(StrLogin)),
     type |-> TypeScore(SubmitInput, StrSubmit),
     tag |-> TagScore(SubmitInput, StrInput),
     classWord |-> WordScore(<<StrSixLetters>>, <<"x">>)]

SingleChannels ==
    <<"textExact", "textSubstring", "placeholder", "testId", "id", "name",
      "type", "tag">>

\* The condition of a channel, each stated on its own.
ChannelHolds(ch, el, tl) ==
    CASE ch = "textExact" ->
            el.text # <<>> /\ toLowerCase(el.text[1]) = tl
      [] ch = "textSubstring" ->
            el.text # <<>> /\ includes(toLowerCase(el.text[1]), tl)
      [] ch = "placeholder" ->
            el.placeholder # <<>>
            /\ includes(toLowerCase(el.placeholder[1]), tl)
      [] ch = "testId" ->
            el.testId # <<>>
            /\ includes(toLowerCase(el.testId[1]), ReplaceSpaces(tl))
      [] ch = "id" ->
            el.id # <<>> /\ includes(toLowerCase(el.id[1]), ReplaceSpaces(tl))
      [] ch = "name" ->
            el.name # <<>> /\ includes(toLowerCase(el.name[1]), tl)
      [] ch = "type" -> el.type # <<>> /\ includes(tl, el.type[1])
      [] ch = "tag" -> includes(tl, el.tag)

\* The description words found in some class name of the element.
MatchingWords(el, tl) ==
    Cardinality({k \in 1..Len(Split(tl)) :
                    \E c \in 1..Len(el.classes) :
                        includes(toLowerCase(el.classes[c]), Split(tl)[k])})

\* In the code the substring branch is the else of the exact branch.
ChannelCounts(ch, el, tl) ==
    /\ ChannelHolds(ch, el, tl)
    /\ ch = "textSubstring" => ~ChannelHolds("textExact", el, tl)

RECURSIVE SumOfHolding(_, _, _)
SumOfHolding(k, el, tl) ==
    IF k > Len(SingleChannels) THEN WeightOf.classWord * MatchingWords(el, tl)
    ELSE (IF ChannelHolds(SingleChannels[k], el, tl)
             THEN WeightOf[SingleChannels[k]] ELSE 0)
         + SumOfHolding(k + 1, el, tl)

RECURSIVE SumOfCounting(_, _, _)
SumOfCounting(k, el, tl) ==
    IF k > Len(SingleChannels) THEN WeightOf.classWord * MatchingWords(el, tl)
    ELSE (IF ChannelCounts(SingleChannels[k], el, tl)
             THEN WeightOf[SingleChannels[k]] ELSE 0)
         + SumOfCounting(k + 1, el, tl)

Ranked == 1..Len(matchedElement.scored)

\* C11 as stated: the score of every candidate is the sum of the weights of
\* all channels whose condition holds for it, plus the class-word weight for
\* every description word found in a class name.
C11_ScoreSumsEveryHoldingChannel ==
    \A k \in Ranked :
        matchedElement.scored[k].score
            = SumOfHolding(1, matchedElement.scored[k].element, TargetLower)

\* C11: the score of every candidate is the sum of the weights of all
\* channels whose condition holds for it, plus the class-word weight for
\* every description word found in a class name, where the text-substring
\* channel counts only when the text is not an exact match.
C11_ScoreSumsChannelsExactOverSubstring ==
    \A k \in Ranked :
        matchedElement.scored[k].score
            = SumOfCounting(1, matchedElement.scored[k].element, TargetLower)

\* The channels that contribute to a candidate's score.
ChannelsOf(el, tl) ==
    {SingleChannels[k] : k \in {j \in 1..Len(SingleChannels) :
                                   ChannelCounts(SingleChannels[j], el, tl)}}
    \cup (IF MatchingWords(el, tl) > 0 THEN {"classWord"} ELSE {})

\* A scored candidate meets the conditions of two or more channels at once.
C11_Witness ==
    /\ matchedElement.done
    /\ \E k \in Ranked :
          Cardinality(ChannelsOf(matchedElement.scored[k].element,
                                 TargetLower)) >= 2

OtherWeights == DOMAIN WeightOf \ {"textExact"}

WeightOrder ==
    /\ \A ch \in OtherWeights : WeightOf.textExact > WeightOf[ch]
    /\ WeightOf.testId < WeightOf.textExact
    /\ WeightOf.testId > WeightOf.id
    /\ WeightOf.textSubstring < WeightOf.placeholder
    /\ WeightOf.placeholder < WeightOf.textExact
    /\ 2 * WeightOf.textSubstring = WeightOf.textExact
    /\ \A ch \in DOMAIN WeightOf \ {"tag"} : WeightOf.tag < WeightOf[ch]

ExactOnly(k) ==
    ChannelsOf(matchedElement.scored[k].element, TargetLower) = {"textExact"}

OneOtherChannel(k) ==
    /\ Cardinality(ChannelsOf(matchedElement.scored[k].element,
                              TargetLower)) = 1
    /\ ~ExactOnly(k)

\* C12 as stated: the weights keep the rank order, and a candidate matching
\* only by exact text scores strictly above every candidate matching on
\* exactly one other channel.
C12_ExactTextOutranksAnyOneChannel ==
    /\ WeightOrder
    /\ \A a \in Ranked, b \in Ranked :
          ExactOnly(a) /\ OneOtherChannel(b)
             => matchedElement.scored[a].score > matchedElement.scored[b].score

\* C12: the weights keep the rank order (text-exact the largest; test-id
\* below text-exact and above id; placeholder between text-substring and
\* text-exact; text-substring half of text-exact; tag the smallest), and a
\* candidate matching only by exact text scores strictly above every
\* candidate matching on exactly one other channel with fewer than five
\* description words found in its class names.
C12_ExactTextOutranksOneWeight ==
    /\ WeightOrder
    /\ \A a \in Ranked, b \in Ranked :
          /\ ExactOnly(a)
          /\ OneOtherChannel(b)
          /\ MatchingWords(matchedElement.scored[b].element, TargetLower) < 5
          => matchedElement.scored[a].score > matchedElement.scored[b].score

\* An exact-text-only candidate was returned ahead of a candidate that
\* matches on one other channel.
C12_Witness ==
    /\ Found
    /\ \E a \in Ranked, b \in Ranked :
          /\ ExactOnly(a)
          /\ OneOtherChannel(b)
          /\ MatchingWords(matchedElement.scored[b].element, TargetLower) < 5
          /\ matchedElement.scored[a].element = Returned
          /\ matchedElement.scored[b].score > 0

(***************************************************************************)
(* No match is a value                                                     *)
(***************************************************************************)

ChildrenOf(d, n) == InOrder({m \in 1..Len(d) : d[m].parent = n}, Len(d), 1)

importantAttrs ==
    <<"id", "class", "data-testid", "name", "type", "placeholder",
      "aria-label", "role", "href", "value", "for", "title">>

\* The entry importantAttrs.forEach adds for one attribute, if any.
ImportantAttr(name, value) ==
    IF value # <<>> /\ value[1] # <<>>
       THEN <<[name |-> name, value |-> value[1]]>>
       ELSE <<>>

RECURSIVE ImportantFrom(_, _, _)
ImportantFrom(d, n, k) ==
    IF k > Len(importantAttrs) THEN <<>>
    ELSE ImportantAttr(importantAttrs[k], GetAttribute(d, n, <<importantAttrs[k]>>))
         \o ImportantFrom(d, n, k + 1)

SummaryTextLimit == 200

RetainedText(text) ==
    IF text # <<>> /\ TextLength(text) > 0 /\ TextLength(text) < SummaryTextLimit
       THEN <<text>>
       ELSE <<>>

\* The text member of a leaf: textContent trimmed, when short enough.
LeafText(d, n) ==
    IF ChildrenOf(d, n) = <<>> THEN RetainedText(Trim(d[n].text)) ELSE <<>>

RECURSIVE cleanElement(_, _)
RECURSIVE CleanChildren(_, _, _)
\* The cleaned children that are not null.
CleanChildren(d, kids, k) ==
    IF k > Len(kids) THEN <<>>
    ELSE cleanElement(d, kids[k]) \o CleanChildren(d, kids, k + 1)

\* cleanElement: <<>> is null, <<r>> is the object r.
cleanElement(d, n) ==
    IF d[n].tag \in {"script", "style"} THEN <<>>
    ELSE <<[tag |-> d[n].tag,
            attrs |-> ImportantFrom(d, n, 1),
            text |-> LeafText(d, n),
            children |-> CleanChildren(d, ChildrenOf(d, n), 1)]>>

\* The first element of a query result in document order, or 0.
FirstOf(nodes) == IF nodes = {} THEN 0 ELSE CHOOSE n \in nodes : \A m \in nodes : n <= m

\* document.querySelector('main') || document.querySelector('[role="main"]')
\*    || document.body
MainOr(first, other) == IF first # 0 THEN first ELSE other

MainContent(d) ==
    MainOr(FirstOf(QuerySelectorAll(d, <<"main">>).nodes),
           MainOr(FirstOf(QuerySelectorAll(d, <<"[", "role", "=", Q, "main", Q, "]">>).nodes),
                  Body))

\* JSON.stringify(value, null, 2): the text as atoms.
Indent(depth) == [i \in 1..(2 * depth) |-> " "]

JsonString(v) == <<Q>> \o v \o <<Q>>

Member(key, value, depth) ==
    Indent(depth) \o <<Q, key, Q, ":", " ">> \o value

Bracketed(open, items, close, depth) ==
    <<open, "\n">> \o Join(items, <<",", "\n">>) \o <<"\n">> \o Indent(depth)
    \o <<close>>

AttrMembers(attrs, depth) ==
    [k \in 1..Len(attrs) |->
        Member(attrs[k].name, JsonString(attrs[k].value), depth)]

TextMember(text, depth) ==
    IF text = <<>> THEN <<>> ELSE <<Member("text", JsonString(text[1]), depth)>>

RECURSIVE Stringify(_, _)
RECURSIVE StringifyAll(_, _, _)
StringifyAll(items, k, depth) ==
    IF k > Len(items) THEN <<>>
    ELSE <<Indent(depth) \o Stringify(items[k], depth)>>
         \o StringifyAll(items, k + 1, depth)

ChildrenMember(children, depth) ==
    IF children = <<>> THEN <<>>
    ELSE <<Member("children",
                  Bracketed("[", StringifyAll(children, 1, depth + 1), "]", depth),
                  depth)>>

Stringify(c, depth) ==
    Bracketed("{",
              <<Member("tag", JsonString(<<c.tag>>), depth + 1)>>
              \o AttrMembers(c.attrs, depth + 1)
              \o TextMember(c.text, depth + 1)
              \o ChildrenMember(c.children, depth + 1),
              "}", depth)

RECURSIVE LengthBetween(_, _, _)
\* The characters of s[lo..hi].
LengthBetween(s, lo, hi) ==
    IF lo > hi THEN 0
    ELSE IF lo = hi THEN AtomLength(s[lo])
    ELSE LengthBetween(s, lo, (lo + hi) \div 2)
         + LengthBetween(s, (lo + hi) \div 2 + 1, hi)

\* String.prototype.length
StringLength(s) == LengthBetween(s, 1, Len(s))

maxLength == 50000

TruncationMarker ==
    <<"\n", ".", ".", ".", " ", "(", "t", "r", "u", "n", "c", "a", "t", "e",
      "d", ")">>

\* The returned string, by its length and whether the marker ends it.
Limited(length) ==
    IF length > maxLength
       THEN [length |-> maxLength + StringLength(TruncationMarker),
             truncated |-> TRUE]
       ELSE [length |-> length, truncated |-> FALSE]

\* The object cleanElement(mainContent) builds inside page.evaluate.
CleanedMain(d) == cleanElement(d, MainContent(d))[1]

extractDOMContent(d) == Limited(StringLength(Stringify(CleanedMain(d), 0)))

\* Tags and attribute values of the pages summarised.
SummaryTags == {"div", "script"}

SummaryAttrValues ==
    [href |-> {<<HugeText>>},
     text |-> {<<"Login">>}]

InitSummary ==
    /\ browser = NoBrowser
    /\ launched = {}
    /\ pc = [c \in Calls |-> "idle"]
    /\ page = [c \in Calls |-> "none"]
    /\ pageOf = [c \in Calls |-> NoBrowser]
    /\ failedAt = [c \in Calls |-> "none"]
    /\ doc = EmptyDocument
    /\ snap = NoSnapshot
    /\ contextElements = <<>>
    /\ matchedElement = NoMatch
    /\ scriptStatus = "ready"
    /\ executions = NoExecutions
    /\ request = NoRequests

\* extractDOMContent runs on the loaded page.
Summarize ==
    /\ ~snap.done
    /\ snap' = [done |-> TRUE, elements |-> <<>>,
                cleaned |-> CleanedMain(doc),
                domContent |-> extractDOMContent(doc)]
    /\ UNCHANGED <<executeVars, analyzeVars, matchVars, doc>>

NextSummary ==
    \/ \E p \in 1..MaxDocSize, t \in SummaryTags :
          p <= Len(doc) /\ AppendChild(p, t)
    \/ \E n \in 1..(MaxDocSize + 1), a \in DOMAIN SummaryAttrValues :
          /\ n <= Len(doc)
          /\ \E v \in SummaryAttrValues[a] : SetAttribute(n, a, v)
    \/ Summarize

SpecSummary == InitSummary /\ [][NextSummary]_vars

\* C14: the string the summarizer returns is never longer than the budget of
\* 50000 characters, the truncation marker included.
C14_SummaryWithinBudget ==
    snap.done => snap.domContent.length <= maxLength

\* An object of the summary that has no attribute, no text and no children.
ReducesToNothing(c) == c.attrs = <<>> /\ c.text = <<>> /\ c.children = <<>>

RECURSIVE HasEmptyChild(_)
HasEmptyChild(c) ==
    \E k \in 1..Len(c.children) :
        ReducesToNothing(c.children[k]) \/ HasEmptyChild(c.children[k])

\* C15: no children list of the summary holds a child that reduces to
\* nothing (no allow-listed attribute, no retained text, no retained
\* descendants).
C15_EmptySubtreesOmitted ==
    snap.done => ~HasEmptyChild(snap.cleaned)

(***************************************************************************)
(* extractForms                                                            *)
(***************************************************************************)

\* The generateSelector local to extractForms.
formsGenerateSelector(d, el) ==
    IF d[el].testid # <<>> /\ d[el].testid[1] # <<>>
       THEN TestIdSelector(d[el].testid[1])
    ELSE IF d[el].id # <<>> THEN IdSelector(d[el].id)
    ELSE <<d[el].tag>>

\* form.querySelectorAll / form.querySelector: the matches of the selector
\* among the descendants of the form, in document order.
WithinForm(d, form, nodes) ==
    InOrder({n \in nodes : form \in Ancestors(d, n)}, Len(d), 1)

fieldSelectors == <<"input", ",", " ", "select", ",", " ", "textarea">>

\* 'button[type="submit"], input[type="submit"], button:not([type="button"])'
\* an element matches the list when it matches one of the first two
\* selectors, or matches button and does not match [type="button"].
submitTypedSelectors ==
    <<"button", "[", "type", "=", Q, "submit", Q, "]", ",", " ",
      "input", "[", "type", "=", Q, "submit", Q, "]">>

typedButtonSelector == <<"[", "type", "=", Q, "button", Q, "]">>

SubmitMatches(d) ==
    QuerySelectorAll(d, submitTypedSelectors).nodes
    \cup (QuerySelectorAll(d, <<"button">>).nodes
          \ QuerySelectorAll(d, typedButtonSelector).nodes)

FieldInfo(d, input) ==
    [tag |-> d[input].tag,
     id |-> d[input].id,
     type |-> IF d[input].type = <<>> THEN <<"text">> ELSE d[input].type,
     selector |-> formsGenerateSelector(d, input)]

FieldsOf(d, inputs) == [k \in 1..Len(inputs) |-> FieldInfo(d, inputs[k])]

SubmitText(text) == IF text = <<>> THEN <<"Submit">> ELSE text

\* The submitButton member: <<>> is null.
SubmitInfo(d, candidates) ==
    IF candidates = <<>> THEN <<>>
    ELSE <<[tag |-> d[candidates[1]].tag,
            text |-> SubmitText(Trim(d[candidates[1]].text)),
            selector |-> formsGenerateSelector(d, candidates[1])]>>

\* The element submitBtn refers to; 0 is null.
SubmitBtn(candidates) == IF candidates = <<>> THEN 0 ELSE candidates[1]

FormInfo(d, form) ==
    [id |-> d[form].id,
     fields |-> FieldsOf(d, WithinForm(d, form,
                            QuerySelectorAll(d, fieldSelectors).nodes)),
     submitBtn |-> SubmitBtn(WithinForm(d, form, SubmitMatches(d))),
     submitButton |-> SubmitInfo(d, WithinForm(d, form, SubmitMatches(d)))]

Forms(d) == InOrder(QuerySelectorAll(d, <<"form">>).nodes, Len(d), 1)

FormInfosOf(d, forms) == [k \in 1..Len(forms) |-> FormInfo(d, forms[k])]

extractForms(d) == FormInfosOf(d, Forms(d))

\* Tags and attribute values of the pages with forms.
FormTags == {"form", "button", "input"}

FormAttrValues ==
    [type |-> {<<"submit">>, <<"button">>, <<"reset">>},
     id |-> {<<"x">>}]

InitForms ==
    /\ browser = NoBrowser
    /\ launched = {}
    /\ pc = [c \in Calls |-> "idle"]
    /\ page = [c \in Calls |-> "none"]
    /\ pageOf = [c \in Calls |-> NoBrowser]
    /\ failedAt = [c \in Calls |-> "none"]
    /\ doc = EmptyDocument
    /\ snap = NoSnapshot
    /\ contextElements = <<>>
    /\ matchedElement = NoMatch
    /\ scriptStatus = "ready"
    /\ executions = NoExecutions
    /\ request = NoRequests

\* extractElements and extractForms run on the loaded page.
ExtractWithForms ==
    /\ ~snap.done
    /\ snap' = [done |-> TRUE, elements |-> extractElements(doc),
                forms |-> extractForms(doc)]
    /\ UNCHANGED <<executeVars, analyzeVars, matchVars, doc>>

\* The page's markup: forms under body, controls under body or a form.
NextForms ==
    \/ \E p \in 1..MaxDocSize, t \in FormTags :
          /\ p <= Len(doc)
          /\ doc[p].tag \in {"body", "form"}
          /\ t = "form" => p = Body
          /\ AppendChild(p, t)
    \/ \E n \in 2..(MaxDocSize + 1), a \in DOMAIN FormAttrValues :
          /\ n <= Len(doc)
          /\ a = "type" => doc[n].tag # "form"
          /\ \E v \in FormAttrValues[a] : SetAttribute(n, a, v)
    \/ ExtractWithForms

SpecForms == InitForms /\ [][NextForms]_vars

\* The form element the k-th form record was built from.
FormOf(k) == Forms(doc)[k]

\* A submit control as the claim defines it: button[type=submit],
\* input[type=submit], or a button whose type is absent or submit.
IsSubmitControl(n) ==
    \/ doc[n].tag = "button" /\ doc[n].type \in {<<>>, <<"submit">>}
    \/ doc[n].tag = "input" /\ doc[n].type = <<"submit">>

SubmitControlsIn(form) ==
    {n \in 1..Len(doc) : form \in Ancestors(doc, n) /\ IsSubmitControl(n)}

\* C16: for every form the recorded submit control is the first element in
\* document order inside the form that is button[type=submit],
\* input[type=submit] or a button without an explicit non-submit type; a
\* button typed button or reset is never recorded; the member is absent when
\* the form has no such element.
C16_SubmitIsFirstSubmitControl ==
    snap.done =>
        \A k \in 1..Len(snap.forms) :
            /\ snap.forms[k].submitBtn = FirstOf(SubmitControlsIn(FormOf(k)))
            /\ snap.forms[k].submitButton = <<>>
                  <=> SubmitControlsIn(FormOf(k)) = {}

\* The element the j-th field of the k-th form was built from.
FieldOf(k, j) ==
    WithinForm(doc, FormOf(k), QuerySelectorAll(doc, fieldSelectors).nodes)[j]

\* The selector the element list records for node n, if it lists n.
ListedSelectors(n) ==
    {snap.elements[i].selector :
        i \in {j \in 1..Len(snap.elements) : Enumerated(doc)[j] = n}}

\* C17: every form field and every submit control that is also in the
\* element list has the same selector in both places.
C17_FormSelectorsEqualListSelectors ==
    snap.done =>
        \A k \in 1..Len(snap.forms) :
            /\ \A j \in 1..Len(snap.forms[k].fields) :
                  \A sel \in ListedSelectors(FieldOf(k, j)) :
                      snap.forms[k].fields[j].selector = sel
            /\ snap.forms[k].submitButton # <<>> =>
                  \A sel \in ListedSelectors(snap.forms[k].submitBtn) :
                      snap.forms[k].submitButton[1].selector = sel

(***************************************************************************)
(* Navigation failure                                                      *)
(***************************************************************************)

\* The call's page.goto rejected.
NavigationFailed(c) == failedAt[c] = "goto"

\* A failed navigation leaves the call terminated and the service's browser
\* set and running.
FailedNavigationState ==
    \A c \in Calls :
        NavigationFailed(c) =>
            /\ pc[c] = "threw"
            /\ browser # NoBrowser
            /\ browser \in launched

\* The step in which page.goto rejects changes nothing but the failing call,
\* and a call that has thrown takes no further step.
FailedNavigationStep ==
    \A c \in Calls :
        /\ (pc[c] = "goto" /\ pc'[c] = "threw") =>
              /\ browser' = browser
              /\ launched' = launched
              /\ \A other \in Calls \ {c} :
                    pc'[other] = pc[other] /\ page'[other] = page[other]
        /\ pc[c] = "threw" => pc'[c] = "threw"

\* C18: a call whose navigation failed throws to its caller and stays
\* terminated (no second attempt, no snapshot returned); the failure ends no
\* other call and leaves the browser the service holds set and running.
C18_NavigationFailureIsLocal ==
    []FailedNavigationState /\ [][FailedNavigationStep]_vars

\* One call failed at navigation and another call, using the same browser,
\* has returned its snapshot.
C18_Witness ==
    \E c \in Calls, other \in Calls :
        /\ NavigationFailed(c)
        /\ pc[other] = "returned"
        /\ pageOf[other] = pageOf[c]
        /\ pageOf[other] = browser

(***************************************************************************)
(* Captures: a node whose read fails, and a second capture                 *)
(***************************************************************************)

\* The forEach callback throws on the element: htmlEl.style is undefined on
\* an element that is neither HTML nor SVG, so reading style.pointerEvents
\* raises a TypeError.
ElementInfoThrows(d, el) == d[el].namespace # <<>>

SomeElementThrows(d, els) ==
    \E k \in 1..Len(els) : ElementInfoThrows(d, els[k])

\* page.evaluate rejects: the callback has no try around a single element.
extractElementsThrows(d) == SomeElementThrows(d, Enumerated(d))

\* What the call of extractElements comes to.
ExtractOutcome(d) ==
    IF extractElementsThrows(d)
       THEN [failed |-> TRUE, elements |-> <<>>]
       ELSE [failed |-> FALSE, elements |-> extractElements(d)]

Captured(outcome, again) ==
    [done |-> TRUE, failed |-> outcome.failed, elements |-> outcome.elements,
     again |-> again]

\* Tags and attribute values of the pages captured.
CaptureTags == {"button", "div"}

CaptureAttrValues ==
    [namespace |-> {<<"urn:x">>},
     testid |-> {<< <<"t">> >>},
     text |-> {<<"Login">>}]

InitCapture ==
    /\ browser = NoBrowser
    /\ launched = {}
    /\ pc = [c \in Calls |-> "idle"]
    /\ page = [c \in Calls |-> "none"]
    /\ pageOf = [c \in Calls |-> NoBrowser]
    /\ failedAt = [c \in Calls |-> "none"]
    /\ doc = EmptyDocument
    /\ snap = NoSnapshot
    /\ contextElements = <<>>
    /\ matchedElement = NoMatch
    /\ scriptStatus = "ready"
    /\ executions = NoExecutions
    /\ request = NoRequests

Capture_MarksDocument ==
    /\ ~snap.done
    /\ snap' = Captured(ExtractOutcome(doc), <<>>)
    /\ doc' = [n \in 1..Len(doc) |-> [doc[n] EXCEPT !.id = <<"seen">>]]
    /\ UNCHANGED <<executeVars, analyzeVars, matchVars>>

\* An analyzePage call captures the page.
Capture ==
    /\ ~snap.done
    /\ snap' = Captured(ExtractOutcome(doc), <<>>)
    /\ UNCHANGED <<executeVars, analyzeVars, matchVars, doc>>

\* A later analyzePage call captures the same, unchanged page.
CaptureAgain ==
    /\ snap.done
    /\ snap.again = <<>>
    /\ snap' = Captured(snap, <<ExtractOutcome(doc)>>)
    /\ UNCHANGED <<executeVars, analyzeVars, matchVars, doc>>

NextCapture ==
    \/ \E p \in 1..MaxDocSize, t \in CaptureTags :
          p <= Len(doc) /\ AppendChild(p, t)
    \/ \E n \in 1..(MaxDocSize + 1), a \in DOMAIN CaptureAttrValues :
          /\ n <= Len(doc)
          /\ \E v \in CaptureAttrValues[a] : SetAttribute(n, a, v)
    \/ Capture
    \/ CaptureAgain

SpecCapture == InitCapture /\ [][NextCapture]_vars

\* The enumerated elements whose read does not fail.
ReadableElements ==
    SelectSeq(Enumerated(doc), LAMBDA el : ~ElementInfoThrows(doc, el))

\* C19: a failure on one enumerated node skips only that node: the capture
\* still yields a snapshot, holding the descriptor of every enumerated node
\* whose read does not fail.
C19_NodeFailureSkipsOnlyThatNode ==
    snap.done =>
        /\ ~snap.failed
        /\ snap.elements = DescriptorsOf(doc, ReadableElements)

LeafTextValues ==
    {<<Text199, "x">>, <<Text199, "x", "y">>, <<" ", "x", " ">>, <<" ">>}

NextLeafText ==
    \/ \E p \in 1..MaxDocSize : p <= Len(doc) /\ AppendChild(p, "div")
    \/ \E n \in 1..(MaxDocSize + 1), v \in LeafTextValues :
          n <= Len(doc) /\ SetAttribute(n, "text", v)
    \/ Summarize

SpecLeafText == InitSummary /\ [][NextLeafText]_vars

\* The children of n that cleanElement does not drop.
KeptChildren(d, n) ==
    SelectSeq(ChildrenOf(d, n), LAMBDA m : d[m].tag \notin {"script", "style"})

\* The text member the claim gives node n: the trimmed text of a leaf whose
\* trimmed length is 1..200, nothing otherwise.
ClaimedText(d, n) ==
    IF /\ ChildrenOf(d, n) = <<>>
       /\ TextLength(Trim(d[n].text)) >= 1
       /\ TextLength(Trim(d[n].text)) <= 200
       THEN <<Trim(d[n].text)>>
       ELSE <<>>

RECURSIVE TextAsClaimed(_, _, _)
TextAsClaimed(d, n, c) ==
    /\ c.text = ClaimedText(d, n)
    /\ \A k \in 1..Len(c.children) :
          TextAsClaimed(d, KeptChildren(d, n)[k], c.children[k])

\* C21: in the summary, a node has a text member exactly when it is a leaf
\* whose trimmed text is 1 to 200 characters long (200 included, 0 and 201
\* excluded), and the member is the trimmed text; a non-leaf has none.
C21_LeafTextOneTo200Inclusive ==
    snap.done => TextAsClaimed(doc, Body, snap.cleaned)

(***************************************************************************)
(* getXPath on every element of a page                                     *)
(***************************************************************************)

\* getXPath is evaluated for each element of the loaded page.
Locate ==
    /\ ~snap.done
    /\ snap' = [done |-> TRUE, elements |-> <<>>,
                paths |-> [n \in 1..Len(doc) |-> getXPath(doc, n)]]
    /\ UNCHANGED <<executeVars, analyzeVars, matchVars, doc>>

NextXPath ==
    \/ \E p \in 1..MaxDocSize, t \in Tags : p <= Len(doc) /\ AppendChild(p, t)
    \/ \E n \in 1..(MaxDocSize + 1), v \in AttrValues.id :
          n <= Len(doc) /\ SetAttribute(n, "id", v)
    \/ Locate

SpecXPath == InitSnapshot /\ [][NextXPath]_vars

\* The step the claim gives element a: its tag and 1 + the number of
\* preceding siblings with that tag.
ClaimedStep(a) ==
    <<"/", doc[a].tag, "[",
      ToString(1 + Cardinality({m \in 1..(a - 1) :
                    doc[m].parent = doc[a].parent /\ doc[m].tag = doc[a].tag})),
      "]">>

RECURSIVE ClaimedSteps(_, _)
\* The steps of the ancestors-or-self of n among the elements k..n, outermost
\* first.
ClaimedSteps(n, k) ==
    IF k > n THEN <<>>
    ELSE (IF k \in Ancestors(doc, n) \cup {n} THEN ClaimedStep(k) ELSE <<>>)
         \o ClaimedSteps(n, k + 1)

\* C22: the path of an element with an id is //*[@id="..."]; the path of an
\* element without one is /html[1] followed by one tag[k] step per
\* ancestor-or-self, k being 1 + the number of preceding same-tag siblings;
\* two distinct elements without id never have the same path.
C22_PathLocatorForm ==
    snap.done =>
        /\ \A n \in 1..Len(doc) :
              snap.paths[n] =
                 IF doc[n].id # <<>>
                    THEN <<"/", "/", "*", "[", "@", "id", "=", Q>> \o doc[n].id
                         \o <<Q, "]">>
                    ELSE <<"/", "html", "[", "1", "]">> \o ClaimedSteps(n, 1)
        /\ \A n, m \in 1..Len(doc) :
              (n # m /\ doc[n].id = <<>> /\ doc[m].id = <<>>)
                 => snap.paths[n] # snap.paths[m]

\* Two same-tag siblings without id and an element with an id were located.
C22_Witness ==
    /\ snap.done
    /\ \E n, m, i \in 1..Len(doc) :
          /\ n # m
          /\ doc[n].id = <<>> /\ doc[m].id = <<>> /\ doc[i].id # <<>>
          /\ doc[n].parent = doc[m].parent /\ doc[n].tag = doc[m].tag

(***************************************************************************)
(* generateSelector: the class tier and its escaping                       *)
(***************************************************************************)

\* The class-intersection selector built for element n, queried on the page.
ClassQuery(n) == QuerySelectorAll(doc, ClassSelector(doc[n].classes))

\* C23: for every element that reaches the class tier, the class selector
\* built from its class list is syntactically valid and matches the element,
\* and the element gets the class selector exactly when no other element
\* carries all of its classes (the tier is decided by the count, never by a
\* parse failure).
C23_EscapedClassSelectorValid ==
    snap.done =>
        \A k \in Descriptors :
            ReachesClassTier(NodeOf(k)) =>
                /\ ClassQuery(NodeOf(k)).ok
                /\ NodeOf(k) \in ClassQuery(NodeOf(k)).nodes
                /\ snap.elements[k].selector = ClassSelector(doc[NodeOf(k)].classes)
                      <=> ~ClassesShared(NodeOf(k))

\* Element n qualifies for the role+text tier.
HasRoleText(n) ==
    /\ doc[n].role # <<>>
    /\ doc[n].text # <<>>
    /\ TextLength(Trim(doc[n].text)) < RoleTextLimit

\* The class candidate of n was built and the query with it threw.
ClassCandidateFails(n) == ReachesClassTier(n) /\ ~ClassQuery(n).ok

\* C24: a snapshot holds one descriptor per enumerated element whatever the
\* class names are; an element whose class candidate does not parse gets the
\* role+text selector when it has role and short text and the structural
\* path otherwise, and a class selector that does not parse is never
\* returned.
C24_UnparsedClassCandidateFallsThrough ==
    snap.done =>
        /\ Len(snap.elements) = Len(Enumerated(doc))
        /\ \A k \in Descriptors :
              /\ ClassCandidateFails(NodeOf(k)) =>
                    snap.elements[k].selector =
                       IF HasRoleText(NodeOf(k))
                          THEN RoleTextSelector(doc[NodeOf(k)].role,
                                                Trim(doc[NodeOf(k)].text))
                          ELSE PathSelector(doc, NodeOf(k))
              /\ ReachesClassTier(NodeOf(k))
                    => \/ snap.elements[k].selector
                             # ClassSelector(doc[NodeOf(k)].classes)
                       \/ ClassQuery(NodeOf(k)).ok

\* A snapshot with an element whose class candidate failed to parse and that
\* got the role+text selector.
C24_Witness ==
    /\ snap.done
    /\ \E k \in Descriptors :
          /\ ClassCandidateFails(NodeOf(k))
          /\ HasRoleText(NodeOf(k))
          /\ snap.elements[k].selector =
                RoleTextSelector(doc[NodeOf(k)].role, Trim(doc[NodeOf(k)].text))

(***************************************************************************)
(* findBestMatchingElement: the type and tag channels                      *)
(***************************************************************************)

\* word is one of the whitespace-separated words of the description.
IsToken(word, tl) == \E k \in 1..Len(Split(tl)) : Split(tl)[k] = word

\* What the channels other than type and tag add to the score of el.
RECURSIVE SumOfOthers(_, _, _)
SumOfOthers(k, el, tl) ==
    IF k > Len(SingleChannels) THEN WeightOf.classWord * MatchingWords(el, tl)
    ELSE (IF /\ SingleChannels[k] \notin {"type", "tag"}
             /\ ChannelCounts(SingleChannels[k], el, tl)
             THEN WeightOf[SingleChannels[k]] ELSE 0)
         + SumOfOthers(k + 1, el, tl)

\* What the type and tag channels add when they count whole words only.
TokenShare(el, tl) ==
    (IF el.type # <<>> /\ IsToken(el.type[1], tl) THEN WeightOf.type ELSE 0)
    + (IF IsToken(el.tag, tl) THEN WeightOf.tag ELSE 0)

\* C25: in the score of every candidate, the type channel adds its weight
\* exactly when the element's type is a whole word of the description, and
\* the tag channel adds its weight exactly when the tag is a whole word of
\* the description; a type or tag that is only part of a longer word adds
\* nothing.
C25_TypeAndTagMatchWholeWords ==
    \A k \in Ranked :
        matchedElement.scored[k].score
            = SumOfOthers(1, matchedElement.scored[k].element, TargetLower)
              + TokenShare(matchedElement.scored[k].element, TargetLower)

(***************************************************************************)
(* findBestMatchingElement: equal scores, and the same call made twice     *)
(***************************************************************************)

\* The matcher is called once more with the same description, list and
\* action.
FindBestAgain ==
    /\ matchedElement.done
    /\ ~matchedElement.repeated
    /\ matchedElement' =
          [matchedElement EXCEPT
              !.repeated = TRUE,
              !.second = findBestMatchingElement(matchedElement.target,
                                                 contextElements,
                                                 matchedElement.action)]
    /\ UNCHANGED <<executeVars, analyzeVars, snapshotVars, contextElements>>

\* Descriptions and actions of the calls that are repeated.
RepeatTargets == {StrSubmit, StrLogin, StrQuux}

RepeatActions == {"click", "assert"}

NextRepeat ==
    \/ \E el \in PageElements : AddElement(el)
    \/ \E target \in RepeatTargets, action \in RepeatActions,
          confidence \in Confidences :
          FindBest(target, action, confidence)
    \/ FindBestAgain

SpecRepeat == InitMatch /\ [][NextRepeat]_vars

\* The positions of the page's element list that hold a candidate for the
\* action of the call.
CandidatePositions ==
    {i \in 1..Len(contextElements) :
        AllowedFor(matchedElement.action, contextElements[i])}

\* Position i holds a candidate no other candidate outscores.
IsTop(i) ==
    /\ i \in CandidatePositions
    /\ \A j \in CandidatePositions :
          ScoreOf(contextElements[j]) <= ScoreOf(contextElements[i])

\* C26: the element returned is the top-scoring candidate that comes first
\* in the page's element list, and the same call made again on the same
\* list returns the same element.
C26_FirstInOrderAmongTies ==
    /\ Found =>
          \E i \in 1..Len(contextElements) :
              /\ IsTop(i)
              /\ \A j \in 1..(i - 1) : ~IsTop(j)
              /\ Returned = contextElements[i]
    /\ matchedElement.repeated => matchedElement.second = matchedElement.element

\* Two different candidates share the top score, the first of them was
\* returned, and the call was made again.
C26_Witness ==
    /\ Found
    /\ matchedElement.repeated
    /\ \E i, j \in 1..Len(contextElements) :
          /\ i < j
          /\ IsTop(i) /\ IsTop(j)
          /\ contextElements[i] # contextElements[j]
          /\ Returned = contextElements[i]

(***************************************************************************)
(* extractElements: the xpath of a descriptor                              *)
(***************************************************************************)

\* C27: the path locator of every descriptor is the path of the element the
\* descriptor was built from, also when its selector matches several
\* elements; every element of the snapshot is in the document, so none is
\* left without a path.
C27_PathLocatesOwnNode ==
    snap.done =>
        \A k \in Descriptors :
            /\ snap.elements[k].xpath # <<>>
            /\ snap.elements[k].xpath = getXPath(doc, NodeOf(k))

(***************************************************************************)
(* enhanceIntentWithPageContext                                            *)
(***************************************************************************)

\* A parsed intent: target and selector are optional; confidence is in
\* hundredths.
UserIntent(action, target, selector, confidence) ==
    [action |-> action, target |-> target, selector |-> selector,
     confidence |-> confidence]

\* The outcome of the language-model step: it threw (no provider, request or
\* JSON.parse error), or it gave a suggestion whose selector may be absent;
\* text is elementInfo.text of a suggestion marked as substituted.
LlmFailed ==
    [failed |-> TRUE, selector |-> <<>>, confidence |-> 0, text |-> <<>>]

Suggestion(selector, confidence, text) ==
    [failed |-> FALSE, selector |-> selector, confidence |-> confidence,
     text |-> text]

\* The try block: the suggestion's selector replaces the intent's, with the
\* suggestion's confidence, or 0.9 when that is missing or 0.
ApplySuggestion(intent, llm) ==
    IF llm.failed THEN intent
    ELSE [intent EXCEPT
             !.selector = IF llm.selector # <<>> THEN llm.selector ELSE @,
             !.confidence = IF llm.selector = <<>> THEN @
                            ELSE IF llm.confidence # 0 THEN llm.confidence
                            ELSE 90,
             !.target = IF llm.text # <<>> THEN llm.text ELSE @]

\* if (matchedElement) { selector = matchedElement.selector; confidence = 0.8 }
ApplyMatch(intent, matched) ==
    IF matched # <<>>
       THEN [intent EXCEPT !.selector = <<matched[1].selector>>,
                           !.confidence = 80]
       ELSE intent

\* The fallback, entered when the intent has a target and still no selector.
FallbackMatch(intent, els) ==
    IF intent.selector = <<>> /\ intent.target # <<>>
       THEN ApplyMatch(intent,
                       findBestMatchingElement(intent.target[1], els,
                                               intent.action))
       ELSE intent

enhanceIntentWithPageContext(intent, els, llm) ==
    FallbackMatch(ApplySuggestion(intent, llm), els)

\* Intents of base parsing, none of them a navigation.
BaseIntents ==
    {UserIntent(action, target, selector, 50) :
        action \in {"click", "type", "assert"},
        target \in {<<>>, <<StrLogin>>, <<StrSubmit>>},
        selector \in {<<>>, <<StrQuux>>}}

\* What the language model can answer: an error, nothing usable, a selector
\* of the list offered, or a selector of its own making.
LlmOutcomes ==
    {LlmFailed,
     Suggestion(<<>>, 0, <<>>),
     Suggestion(<<StrButton>>, 0, <<>>),
     Suggestion(<<StrButton>>, 70, <<>>),
     Suggestion(<<StrQuux>>, 70, <<StrLogin>>)}

\* parseIntentWithContext enhances a non-navigate intent with the page's
\* elements.
Enhance(intent, llm) ==
    /\ ~matchedElement.done
    /\ matchedElement' =
          [done |-> TRUE, base |-> intent, llm |-> llm,
           intent |-> enhanceIntentWithPageContext(intent, contextElements,
                                                   llm)]
    /\ UNCHANGED <<executeVars, analyzeVars, snapshotVars, contextElements>>

NextEnhance ==
    \/ \E el \in PageElements : AddElement(el)
    \/ \E intent \in BaseIntents, llm \in LlmOutcomes : Enhance(intent, llm)

SpecEnhance == InitMatch /\ [][NextEnhance]_vars

\* s is the selector of one of the page's elements.
IsListed(s) == \E k \in 1..Len(contextElements) : contextElements[k].selector = s

\* s is the selector of a candidate the matcher can return for the base
\* intent: allowed for the action and scoring at least 5 for the target.
IsMatcherResult(s) ==
    /\ matchedElement.base.target # <<>>
    /\ \E k \in 1..Len(contextElements) :
          /\ contextElements[k].selector = s
          /\ AllowedFor(matchedElement.base.action, contextElements[k])
          /\ Score(contextElements[k],
                   toLowerCase(matchedElement.base.target[1])) >= 5

\* C28: the selector of an enhanced non-navigate intent, when present, is
\* the selector of one of the page's elements (a selector of base parsing or
\* of the language model that is not listed is not kept); when the
\* language-model step failed, the selector is unset or it is the matcher's
\* result with confidence 0.8.
C28_SelectorAlwaysFromSnapshot ==
    matchedElement.done =>
        /\ matchedElement.intent.selector # <<>>
              => IsListed(matchedElement.intent.selector[1])
        /\ matchedElement.llm.failed =>
              \/ matchedElement.intent.selector = <<>>
              \/ /\ IsMatcherResult(matchedElement.intent.selector[1])
                 /\ matchedElement.intent.confidence = 80

(***************************************************************************)
(* parseIntentWithContext                                                  *)
(***************************************************************************)

\* The base intent with its optional url; no page context attached yet.
WithUrl(intent, url) == intent @@ [url |-> url, pageContext |-> <<>>]

\* The outcome of a call: it threw, or it returned an intent; analysed tells
\* whether analyzePage was called.
Returns(intent, analysed) ==
    [threw |-> FALSE, analysed |-> analysed, intent |-> <<intent>>]

Throws == [threw |-> TRUE, analysed |-> TRUE, intent |-> <<>>]

\* analyzePage resolved with a page context holding the elements els.
AfterAnalysis(baseIntent, els, llm) ==
    IF baseIntent.action # "navigate"
       THEN Returns([enhanceIntentWithPageContext(
                        [baseIntent EXCEPT !.pageContext = <<els>>], els, llm)
                       EXCEPT !.pageContext = <<els>>],
                    TRUE)
       ELSE Returns([baseIntent EXCEPT !.pageContext = <<els>>], TRUE)

\* The catch block rethrows for every action.
AfterFailure_AlwaysThrows(baseIntent) == Throws

\* The catch block: analyzePage rejected.
AfterFailure(baseIntent) ==
    IF baseIntent.action = "navigate" THEN Throws
    ELSE Returns(baseIntent, TRUE)

\* const url = baseIntent.url || currentUrl
UrlOf(baseIntent, currentUrl) ==
    IF baseIntent.url # <<>> THEN baseIntent.url ELSE currentUrl

\* analysisOk tells whether analyzePage resolves if it is called.
parseIntentWithContext(baseIntent, currentUrl, analysisOk, els, llm) ==
    IF UrlOf(baseIntent, currentUrl) = <<>> THEN Returns(baseIntent, FALSE)
    ELSE IF analysisOk THEN AfterAnalysis(baseIntent, els, llm)
    ELSE AfterFailure(baseIntent)

\* Urls of an intent or of the conversation: absent or present.
Urls == {<<>>, <<"https://example.com">>}

ContextIntents ==
    {WithUrl(UserIntent(action, <<StrLogin>>, selector, 50), url) :
        action \in {"navigate", "click"},
        selector \in {<<>>, <<StrQuux>>},
        url \in Urls}

ContextLlmOutcomes == {LlmFailed, Suggestion(<<StrButton>>, 70, <<>>)}

\* A chat message is parsed with the page at hand.
ParseWithContext(baseIntent, currentUrl, analysisOk, llm) ==
    /\ ~matchedElement.done
    /\ matchedElement' =
          [done |-> TRUE, base |-> baseIntent, currentUrl |-> currentUrl,
           analysisOk |-> analysisOk, llm |-> llm,
           result |-> parseIntentWithContext(baseIntent, currentUrl,
                                             analysisOk, contextElements, llm)]
    /\ UNCHANGED <<executeVars, analyzeVars, snapshotVars, contextElements>>

NextContext ==
    \/ \E el \in PageElements : AddElement(el)
    \/ \E baseIntent \in ContextIntents, currentUrl \in Urls,
          analysisOk \in BOOLEAN, llm \in ContextLlmOutcomes :
          ParseWithContext(baseIntent, currentUrl, analysisOk, llm)

SpecContext == InitMatch /\ [][NextContext]_vars

\* The call had a url and analyzePage rejected.
AnalysisFailed ==
    /\ matchedElement.done
    /\ matchedElement.result.analysed
    /\ ~matchedElement.analysisOk

NoUrl ==
    /\ matchedElement.done
    /\ matchedElement.base.url = <<>>
    /\ matchedElement.currentUrl = <<>>

\* C29: when page analysis fails, the call throws for a navigate intent and
\* for any other action returns the base intent as it was (no page context,
\* selector and confidence of base parsing); when neither the intent nor the
\* caller gives a url, analyzePage is not called and the base intent is
\* returned.
C29_AnalysisFailureByAction ==
    /\ AnalysisFailed =>
          IF matchedElement.base.action = "navigate"
             THEN matchedElement.result.threw
             ELSE /\ ~matchedElement.result.threw
                  /\ matchedElement.result.intent = <<matchedElement.base>>
                  /\ matchedElement.result.intent[1].pageContext = <<>>
    /\ NoUrl =>
          /\ ~matchedElement.result.analysed
          /\ ~matchedElement.result.threw
          /\ matchedElement.result.intent = <<matchedElement.base>>
    /\ (matchedElement.done /\ ~NoUrl) => matchedElement.result.analysed

\* Page analysis failed for a click intent that carries a selector, on a
\* page whose elements would have matched the target.
C29_Witness ==
    /\ AnalysisFailed
    /\ matchedElement.base.action = "click"
    /\ matchedElement.base.selector # <<>>
    /\ \E k \in 1..Len(contextElements) :
          Score(contextElements[k], toLowerCase(StrLogin)) >= 5

\* Page analysis failed for a navigate intent and the call threw.
C29_NavigateThrows ==
    /\ AnalysisFailed
    /\ matchedElement.base.action = "navigate"
    /\ matchedElement.result.threw

(***************************************************************************)
(* ScriptController: POST /:id/execute                                     *)
(***************************************************************************)

\* The statuses a stored script can have before it is executed.
InitExecute ==
    /\ browser = NoBrowser
    /\ launched = {}
    /\ pc = [c \in Calls |-> "idle"]
    /\ page = [c \in Calls |-> "none"]
    /\ pageOf = [c \in Calls |-> NoBrowser]
    /\ failedAt = [c \in Calls |-> "none"]
    /\ doc = EmptyDocument
    /\ snap = NoSnapshot
    /\ contextElements = <<>>
    /\ matchedElement = NoMatch
    /\ scriptStatus \in {"draft", "ready", "completed", "failed"}
    /\ executions = NoExecutions
    /\ request = NoRequests

\* Handler r moves from one await to the next.
Goes(r, from, to) ==
    /\ request[r].pc = from
    /\ request' = [request EXCEPT ![r].pc = to]

\* getScript resolves with the script.
GetScript(r) ==
    /\ Goes(r, "idle", "got")
    /\ UNCHANGED <<scriptStatus, executions>>
    /\ UNCHANGED <<analyzeVars, snapshotVars, matchVars>>

\* createExecution stores a record with status 'pending'.
CreateExecution(r) ==
    /\ Goes(r, "got", "created")
    /\ executions' = [executions EXCEPT ![r] = "pending"]
    /\ UNCHANGED scriptStatus
    /\ UNCHANGED <<analyzeVars, snapshotVars, matchVars>>

\* script.status = 'running'; saveScript(script)
SaveRunning(r) ==
    /\ Goes(r, "created", "racing")
    /\ scriptStatus' = "running"
    /\ UNCHANGED executions
    /\ UNCHANGED <<analyzeVars, snapshotVars, matchVars>>

\* Promise.race resolves with the result of executeScript.
RaceResolves(r, success) ==
    /\ request[r].pc = "racing"
    /\ request' = [request EXCEPT ![r] = [pc |-> "raced", success |-> success]]
    /\ UNCHANGED <<scriptStatus, executions>>
    /\ UNCHANGED <<analyzeVars, snapshotVars, matchVars>>

\* Promise.race rejects: executeScript threw, or the 60-second timer fired
\* first. Control passes to the catch block.
RaceRejects(r) ==
    /\ Goes(r, "racing", "caught")
    /\ UNCHANGED <<scriptStatus, executions>>
    /\ UNCHANGED <<analyzeVars, snapshotVars, matchVars>>

\* updateExecution(executionId, {status: result.success ? ... })
UpdateExecution(r) ==
    /\ Goes(r, "raced", "updated")
    /\ executions' =
          [executions EXCEPT
              ![r] = IF request[r].success THEN "completed" ELSE "failed"]
    /\ UNCHANGED scriptStatus
    /\ UNCHANGED <<analyzeVars, snapshotVars, matchVars>>

\* script.status = result.success ? 'completed' : 'failed'; saveScript(script)
SaveFinal(r) ==
    /\ Goes(r, "updated", "saved")
    /\ scriptStatus' = IF request[r].success THEN "completed" ELSE "failed"
    /\ UNCHANGED executions
    /\ UNCHANGED <<analyzeVars, snapshotVars, matchVars>>

\* The catch block reads the script again.
CatchGetScript(r) ==
    /\ Goes(r, "caught", "caughtGot")
    /\ UNCHANGED <<scriptStatus, executions>>
    /\ UNCHANGED <<analyzeVars, snapshotVars, matchVars>>

\* script.status = 'failed'; saveScript(script) in the catch block.
CatchSaveFailed(r) ==
    /\ Goes(r, "caughtGot", "saved")
    /\ scriptStatus' = "failed"
    /\ UNCHANGED executions
    /\ UNCHANGED <<analyzeVars, snapshotVars, matchVars>>

\* res.json(...) after the last getScript.
Respond(r) ==
    /\ Goes(r, "saved", "responded")
    /\ UNCHANGED <<scriptStatus, executions>>
    /\ UNCHANGED <<analyzeVars, snapshotVars, matchVars>>

NextExecute ==
    \E r \in Requests :
        \/ GetScript(r)
        \/ CreateExecution(r)
        \/ SaveRunning(r)
        \/ \E success \in BOOLEAN : RaceResolves(r, success)
        \/ RaceRejects(r)
        \/ UpdateExecution(r)
        \/ SaveFinal(r)
        \/ CatchGetScript(r)
        \/ CatchSaveFailed(r)
        \/ Respond(r)

SpecExecute == InitExecute /\ [][NextExecute]_vars

\* Every execute request that was made has responded.
AllResponded ==
    /\ \E r \in Requests : request[r].pc = "responded"
    /\ \A r \in Requests : request[r].pc \in {"idle", "responded"}

\* C30: once every execute request for the script has responded, the stored
\* status of the script is 'completed' or 'failed', and the execution record
\* of no request that responded is still 'pending'.
C30_ExecuteEndsCompletedOrFailed ==
    AllResponded =>
        /\ scriptStatus \in {"completed", "failed"}
        /\ \A r \in Requests :
              request[r].pc = "responded" => executions[r] # "pending"

====
